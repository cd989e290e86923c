# UVA AI proxy: verification

TLA+ models, model checking and proofs of the UVA AI proxy (`src/`): a C
program that puts an OpenAI-compatible API, a dashboard and a coding
environment in front of the University of Amsterdam's AI chat.

Paths below are relative to `src/proxy/src/` unless they say otherwise.

## 1. The system

One process, one listening socket, one detached POSIX thread per connection.
Handlers share a SQLite database (`core/database/database.c`, one mutex taken
for one statement at a time), a few static variables, and the upstream service
UvA, which keeps chat threads of its own. Nothing is locked from one database
section to the next, so every request is a sequence of short atomic sections
that interleaves with all others.

| Part | State it keeps | Operations | Talks to | What is hard |
|---|---|---|---|---|
| Chat completions: `api/upstream/chat.c`, `chat_thread.c`, `utils/thread_state.c` | table `thread_state`, static `last_purge` | look up, save, increment, delete, purge a row; full and incremental posts | UvA, request log, keys | lookup and save apart; row saved before the thread exists; lost answers; TTL; message counting |
| Responses API: `api/responses/*` | tables `response_state`, `thread_state` | load, delete, save a transcript; continuation check | UvA, keys | records taken before the call and saved after the answer; two calls in one request |
| Stream parsing: `api/stream/parser.c`, `api/upstream/think_parser.c` | partial line, partial tag, output buffer | feed, finish | curl callbacks, SSE emitter | data split anywhere; end of stream inside a tag; full buffers |
| HTTP server: `core/server/*`, `main.c` | `g_running`, `g_server_fd`, handler threads | listen, accept, handle, stop | all handlers | stop against start; handlers that outlive `main`; sockets handed over |
| Browser login: `ui/dashboard/auth_browser.c`, `auth/session/browser_monitor.c` | the one `g_browser_session`, its monitor thread | start, poll, cancel | users, cookies, UvA | unlocked pointer; cancel against success |
| Dashboard login: `ui/dashboard/auth.c`, `core/database/users.c` | `users.dashboard_token` | login, check, logout | UvA | one token per user; find and clear apart |
| Login page: dashboard `js/core/auth.js`, `api.js`, `app.js` | the page on the screen, `localStorage`, `pollInterval` | click, poll, log out, reload, call | both of the above | answers that find the page gone on; a button that must come back |
| API keys and log: `auth/apikey/*`, `core/database/keys.c`, `logs.c` | `api_keys`, `request_log` | create, update, toggle, delete, resolve, log | every API handler | keys change while a request is under way; cascades |
| Projects: `ui/dashboard/projects.c`, `core/database/projects.c`, `cloud/vps/*`, dashboard `js/coding/coding.js` | `projects`, key and container of each, the page's list | create, status, list, update, delete | Docker over SSH, GitHub, keys | long remote steps between database sections; partial failure |
| Terminals: `ui/dashboard/terminal.c`, `cloud/terminal/*` | child process, PTY, WebSocket | spawn, bridge, kill | the kernel, Docker | ownership of descriptors; two ends that may close |
| Open WebUI supervisor: `ui/webui/*` | `g_webui_running`, `g_webui_child_pid`, retry count | start, supervise, stop | child process | stop against restart |
| Grading: `ui/dashboard/grading.c`, `core/database/grading.c`, dashboard `js/grading/*` | `grading_sessions`, `grading_results`, the page's batch | create, save result, finish, delete | models, keys | partial failure, retry, cancel |
| Tool calls and events: `api/responses/tool_*.c`, `handler*.c`, `route_helpers.c`, `emitter.c` | the answer collected so far, the calls found in it | parse, strip, search, ask again, send events | stream parsing, the client's socket | two passes that must see the same blocks; a search that goes back; a second answer that may fail; events that must add up |
| The rest: cookies, configuration, platform, GitHub, static files, WebSocket frames, event emitter, setup | none or read once | | | formatting and I/O |

What makes each part correct, in a sentence: conversations do not mix and lose
no turn (chat, responses); what the client receives does not depend on how the
network cut it up (parsers); a stop stops (server, supervisor, terminals); one
login session, whose thread ends (browser login); a deleted thing stays deleted
and takes what it owns with it (keys, projects, grading).

## 2. Plan

Modelled first, because the system's value is conversations that keep their
context: chat threads, then clients on top of them, then the Responses API.

| Order | Module | State | Abstract specification or properties | Theorems |
|---|---|---|---|---|
| 1 | `ChatThreads`, `ChatClients` | done | isolation, context, progress | done |
| 2 | `ResponsesApi` | done | isolation, hand-over of threads | done |
| 3 | `StreamParser`, `ThinkParser`, `ThinkStrip`, `ChatStream` | done | output independent of chunking, refinement of the whole-text parser | done |
| 4 | `HttpServer`, `TerminalSession`, `WebuiSupervisor`, `ProxyProcess` | done | stops stop, descriptors and children keep their owner | done |
| 5 | `GradingStore`, `Grading` | done | results belong to their session, deletion is final, leaving cancels | done |
| 6 | `ProjectStore`, `CodingPage` | done | rows are true, statuses go forward, no orphans, the list is true | done |
| 7 | `BrowserLogin`, `DashboardAuth`, `LoginPage` | done | one login session, the account shown owns the token, the button comes back | done |
| 8 | `ToolCalls`, `ResponseStream` | done | two passes agree, a search advances, a reply adds up | done |
| 9 | `KeysAndLogs` | planned | what is deleted stays deleted, a request is logged under its key | ownership invariants |

## 3. Modules

### ChatThreads: `POST /v1/chat/completions`

`table` is the SQLite table `thread_state`, keyed by the conversation key
(API key, model, first user message; SHA-256 is taken to be injective, and so
is the string it is fed: `chat_thread.c:48` puts a `:` between the parts and does
not escape one in a model's name, so no model name is taken to hold any);
`lastPurge` the static of `thread_state.c`; `upstream` what UvA has accepted,
thread by thread. One action per atomic section of the handler:

| Action | Code |
|---|---|
| `Arrive` | `handle_chat_completions` up to `resolve_thread`, overrides applied |
| `StartUnkeyed` | the two early exits of `resolve_thread` (no user content) |
| `StartFind`, `FindRow`, `MissRow` | `thread_state_find`: clock and purge first, lookup and expiry test after |
| `SaveRow` | `thread_state_save`, before anything is sent |
| `Accept`, `Return` | the POST: UvA takes it, curl returns; a timeout is `Return` with class `none` after `Accept` |
| `Finish` | `thread_state_delete` / `thread_state_incr` and the reply |
| `Crash` | the process dies; tables stay, `last_purge` and handlers go |

HTTP status codes are five classes: `none` (curl failed), `ok`, `redirect`,
`rejected` (4xx), `error` (5xx): the code tells exactly these apart.
`issued` and `from` are history: whom a thread id was drawn for and whose
conversation a post belongs to.

### ChatClients: clients of an OpenAI SDK on top of ChatThreads

Each conversation sends one request at a time with the whole history, as a stream
or not, and goes on to the next turn after a 200 (`GoOn`) or repeats a request
that failed (`GiveUp`); it may also ask for the last answer again (`Regenerate`).
A stream has had its 200 before UvA is asked (`chat.c:229`), and is sent nothing
when the call fails (`if (!streaming)`, line 258): it just ends. What a client
makes of that is its own affair, so it may do either: take what came for the
answer and go on (`heard` is `cut`), or miss the `[DONE]` and repeat. The same
goes for streams cut by a crash of the proxy (`CrashSeen`).

`misled` marks the conversations that went on from a turn UvA does not have while
the row that says otherwise stays (`Misleads`): after a 3xx or 4xx, which is
answered 200, after a failed full post in a stream, or after a crash. `unsettled`
marks those that asked for an answer again or lost one to a crash of the proxy.
Fairness (`FairCSpec`): handler threads are scheduled by the kernel, `Return`
happens because curl has `CURLOPT_TIMEOUT` (120 s, `client.c`), clients go on.
Time, faults, crashes and forgetting are not fair.

### ResponsesApi: `POST /v1/responses`

`transcript` is `response_state`, `row` is `thread_state` under response ids.
`Load`, `Forget`, `Find`, `SaveState`, `SaveRow`, `DropRow` are the six database
sections of `handle_responses`; `Continue` and `OpenThread` are
`resp_build_and_translate`, run once or, after `AskAgain`
(`resp_continuation_check`), twice. `Reply` answers the client before the three
saves, as the code does. `said[i]` is everything the conversation of response
`i` has put in, `owner` and `root` whose conversation a thread and a response
belong to: history variables that the properties compare the tables with.

`ResponsesClients` says who calls. Either anyone, at any time (`Next`); or one
client that is `patient`: it has one conversation, waits for the handler and goes
on from the latest response (`PatientNext`), nothing expires and the process
lives. A call that failed leaves the latest response where it was, so that client
asks again from there. What a single client may rely on is stated for it alone.

### StreamParser, ThinkParser, ChatStream: a streamed answer

`StreamParser` is the line buffer of `stream/parser.c`: a chunk is appended
(`FeedChunk`), complete lines are taken one by one (`TakeLine`), the rest is
taken for a line when the transfer ends (`TakeRest`). A line is abstracted to
its prefix, its text and the end of its JSON object: one that is cut short does
not parse and holds no text. `ThinkParser` is the automaton of
`think_parser.c`, one action per branch of its `switch`; the `push_str` loops
are steps of their own (`PushNext`). `ChatStream` chains the two as `chat.c`
does: the callback of the first feeds the second, and both are finished in that
order wherever the transfer ended.

`ThinkStrip` is the abstract specification: the loop of `think_strip`, by which
non-streaming clients get the same answer, over a text that is still growing.
The refinement mapping takes what is held back in `token`, `tag` and `todo`
off the text to get the loop's position, and what is in `out` for already put
out.

### ToolCalls, ResponseStream: what a client of `POST /v1/responses` is sent

`ToolCalls` is `resp_try_parse_tools`, an action per turn of its three loops:
`TakeBlock` goes through the tagged blocks (`tool_parse.c`), `StripBlock` takes
them out of the text if there are calls in them (`tool_strip.c`), and `SkipName`
and `TakeObject` search the text for objects with a name if there are none
(`tool_parse_loose.c`). A text is a sequence of what the loops tell apart: four
tags, two braces, `"name"`, and anything else; a call is the place it starts at.
`beat` is no state of the code: it makes a turn that changes nothing a step, so
that a loop that goes round in place is seen to.

`ResponseStream` is the second use of the parser, `handler.c` and
`handler_buffered.c`, over the wire of `ChatStream`: an answer is read for the one
(`api = "chat"`) or for a response without or with tools.

| Action | Code |
|---|---|
| `RespReceive`, `RespLine`, `RespEnd` | the write callback, the token callbacks, the end of `resp_handle_text_*` with its status |
| `RespScan` | `resp_try_parse_tools`, turn by turn |
| `AskAgain`, `Parsed` | `resp_continuation_check`: the call, whose answer may be any of `Answer` or none, and what is kept of it |
| `Reply` | the end of `handle_responses`: `resp_emit_result_sse`, or `resp_emit_*_done` and `resp_emit_completed`, or one JSON body |

`CallsFound` compares the calls and the text that is left with one reading of the
text from left to right (`Reading`); `ReplyAddsUp` compares the events with the
calls or the text they are about. Whether a transfer has failed is not settled by
where it ended: curl may report either.

### HttpServer, TerminalSession, WebuiSupervisor, ProxyProcess: one process

`HttpServer` is `server.c`: the descriptor table (`use`), main's place in
`server_listen` and the accept loop, one place per caller of `server_stop`
(`stop`, a step per access to `g_running` and `g_server_fd`), and the connection
threads. The kernel hands out the lowest free number, so a number that is closed
twice may by then be another thread's. `met` is history: whether two calls of
`server_stop` have ever overlapped. `TerminalSession` extends it with the
connections that become terminals and their children, `WebuiSupervisor` is the
thread of `launcher.c` with `webui_kill_child` for each of the two threads that
call it, and `ProxyProcess` is `main`: it starts the supervisor between listen
and accept, stops it after the loop, and when it exits everything stops.

`Settle` is the one assumption about time: the 200 ms of `webui_stop` are enough
for the supervisor to get from its test of the flag to the pid of the child it
has forked.  Calls that block (health checks, setup, sleeps) are not waited for.
Fairness (`FairSpec`): the threads' own steps are scheduled; signals, requests,
deaths and connections need not come.

### GradingStore, Grading: the grading page and its store

`GradingStore` is the server's side: `ui/dashboard/grading.c` over
`core/database/grading.c`. A request is a thread of its own, so each is in flight
by itself (`create`, `save`, `finish`, `deletes`), arrives in any order and may
fail at any step. `save_result` and `finish` are two steps each: the session is
looked up in one database section (`CheckSave`, `CheckFinish`) and written to in
another (`InsertSave`, `UpdateStats`), with `Delete` in between if it likes. A row
whose session is gone is refused by the foreign key, and an update of it changes
nothing. `finish` hands the status on after `json_object_put` has freed the body
it points into: the model stores `"completed"` or `"undefined"`.

`Grading` is the page, `src/dashboard/js/grading/*`: one action per turn of the
browser's event loop.

| Action | Code |
|---|---|
| `StartNew`, `SetRubric`, `SetStep` | `startNew` with `resetState`, the setters, Next and Back |
| `ChooseWork`, `WorkRead`, `WorkUnread`, `RubricRead` | a file is chosen; it has been read, whatever is shown by then |
| `GradeAll`, `SessionCreated` | `gradeAll` up to the POST of `createSession`; its callback, after an answer or a failure |
| `Outcome` | `removeController`, `onGradeResult` or `onGradeError` with `saveResultToBackend` and `checkAllDone` |
| `RetrySubmission`, `Leave`, `LoggedOut`, `ToHistory`, `ViewSession`, `Viewed`, `DeleteSession` | the handlers of these names; `Leave` is the router's `unmount` |

A submission is the work handed in and its status. A session is named by the
batch it is created for, and a call by the work and the number of the attempt, so
`save[c].work # c[1]` says that a result was stored for somebody else's work.
Prompts, scores, averages, names and layout are left out, and so is the parsing
of a grade: an outcome is good or bad, and either can be. `lost` is history:
whether any request has failed or been cancelled.

`Patient` is a constant because nothing in the code keeps a user from going on
while requests are out. A patient user starts a batch or presses Grade All when
nothing is under way, and retries when no finish request is. With
`Patient = FALSE` and the hypotheses dropped, TLC finds a file that is chosen in
one batch, read after the user has left it, and handed in with the next
(`OwnResults` fails), and a file read after Grade All that stays "pending" on the
results panel, which has no button that grades it (`QueuedAreGraded` fails,
against the sentence of `grading-ui.js:187`). Both
properties therefore have the hypothesis `Patient`. `DeletionFinal` and
`LeavingCancels` have none.

### ProjectStore, CodingPage: coding projects

`ProjectStore` is `ui/dashboard/projects.c` over `core/database/projects.c` and the
Docker host. Each handler is the sequence of its database sections and its one
`ssh` command, which may take seconds: `create` is `StoreKey`, `InsertProject`,
`RunContainer`, `SetContainer`; `delete` is `GetForDelete`, `RemoveContainer`,
`DeleteRow`; `status` is `GetStatus`, `Inspect`, `SetDone`. In between, the other
requests take their steps, the task in the container ends (`Exit`), the key is
deleted on the page of the keys (`DeleteKey`), a write fails or the process dies.
A row, a key and a container are named by their project, whose id is not used
again. An update writes columns that are not told apart: what matters is that it
writes no others.

`CodingPage` is `js/coding/coding.js`, an action per turn of the event loop: the
view (`Mount`, `Unmount`, `LoggedOut`, `Reload`), the clicks, the ticks of the
status timer (`Poll`), and the answers, which are applied in the order they arrive
in, to whatever is shown by then. An answer that changes nothing on the page ends
the request (`Ends`).

`calm` is history: nothing outside has failed, and the user has waited for the
answer to one thing before doing the next; polls need not be waited for. `NoOrphans`
and `ListTrue` hold as long as it is so and need it. With the clause dropped and
failures switched off TLC finds:

- a project that is created before the page's list has arrived is on that list as
  pending; deleted there while `docker run` is under way, it has no container on
  record yet, so none is removed, and the container that then starts belongs to
  nobody (`projects.c:250` against `projects.c:171`);
- a list that was read before a create and arrives after its answer takes the new
  project off the page (`coding.js:128`).

`RowsTrue` and `StatusForward` hold whatever happens.

### BrowserLogin, DashboardAuth, LoginPage: the dashboard's login

`BrowserLogin` is `auth/session/browser_monitor.c`: the login sessions and the
thread of each, which looks for the cookie in the browsers' databases
(`Attempt`), has UvA check it (`Accepted`, `Rejected`), and gives up when it is
cancelled or has looked often enough (`GiveUp`). Attempts are not counted: the
thread may give up at any. `DashboardAuth` is `ui/dashboard/auth_browser.c`,
`auth.c` and `core/database/users.c`: the steps of the handlers between their
accesses to `g_browser_session` (`current`), the joins, and the database
sections. `LoginPage` is `js/core/auth.js`, `api.js` and `app.js` on top of both,
one action per turn of the browser's event loop.

| Action | Code |
|---|---|
| `Start`, `EndSession`, `StartSession` | `dashboard_auth_browser_start`: cancel what is there, join and free it, `browser_login_start` |
| `Status`, `SaveToken`, `DropSession`, `EndSession` | `dashboard_auth_browser_status`: read the status, write user and token, end the session that is current by then |
| `Cancel`, `EndSession` | `dashboard_auth_browser_cancel` |
| `Authenticate`, `FindForLogout`, `ClearToken` | `dashboard_auth_me` and `authenticate_dashboard`; the two sections of `dashboard_auth_logout` |
| `LoginElsewhere` | `dashboard_auth_login` of another client, of which the page sees the new token in the table |
| `Click`, `StartAnswered` | `doBrowserLogin` and its callback |
| `Tick`, `TickLate`, `StatusAnswered` | `pollBrowserStatus` before and after two minutes, and its callback |
| `Call`, `CallAnswered`, `MeAnswered`, `Logout`, `Reload` | `api.js` with its 401, `app.js` on loading, `doLogout` |

What a second `pthread_join` or `free` of the same struct does is undefined; in
the model the call returns, and the process may die (`Crash`). Nothing listens
to the answers to cancel and logout, so they end the request. A cookie found is
the account it belongs to; the user may log in and out at UvA at any time, so any
may be found.

`calm` is history: the requests of a login have come one at a time and nobody
has logged in elsewhere. Nothing in the code keeps them apart, so `OneLogin`,
`LoginHolds` and `StaysLoggedIn` have it as a hypothesis and fail without it; `ShownIsOwner` and `ButtonComesBack` hold without it.
`ButtonComesBack` is the safety core of "the button works again": an interval
runs, or the answer that will start it or enable the button is on its way. No
fairness is assumed of a browser.

## 4. Runs

| Run | Question | Bounds |
|---|---|---|
| `chat_threads` | any requests in any order | 2 handlers, 3 requests over 4 bodies, 3 thread ids, clock 3, one crash or forgotten thread |
| `chat_clients` | turns, failures, streams that end, retries, expiry, regenerated answers, a crash or a forgotten thread; does every conversation end | 1 conversation of 3 turns, 6 requests, 6 thread ids numbered as they are drawn, 2 faults or regenerated answers, 1 crash or lost thread, clock 3 |
| `unopened` | counterexample to "on an existing thread" (see findings) | the same, 1 fault, no crash, clock 1 |
| `responses` | chain from anything at any time; or a client that waits | any clients: 2 handlers, plain turns, 3 responses, 3 threads, 1 fault or refusal, 1 crash, clock 2; the patient one: 4 responses, 4 threads, with tools, 2 faults; ids are drawn in order |
| `responses_results` | counterexample to the README (see findings) | 3 responses |
| `streams` | every answer, cut and ended anywhere, read for either API; every text with calls | chat: texts of 7 characters over the 3 the tags are made of, tags of 3, out of 4, two data lines; responses: the same over 2 characters; tools: 4 tags, calls, blocks or words, and 5 braces, names or words, room for 2 calls; events hold 5 |
| `tool_loop` | counterexample to "Returns number of calls found" (see findings) | up to 3 objects, a name first, last or alone in each |
| `process` | stops, terminals and Open WebUI in one process | 1 connection at a time (and the signal), 3 descriptors, 2 retries; any number of connections, signals and shutdowns |
| `left_open` | counterexample to the ownership of descriptors (see findings) | the same, 1 retry |
| `grading` | a patient user's batches, graded, retried, left, deleted | 2 batches, 2 works, 2 attempts at each; works are symmetric |
| `coding` | a project's requests in any order, failing and crashing anywhere | 1 project, 3 requests at a time; any number of polls, updates, reloads and crashes |
| `login` | a page, its login requests and the monitor thread, overlapping anyhow | 2 accounts, 2 sessions, 2 requests at a time, 4 tokens, all symmetric; any number of attempts, logins, reloads and crashes |

Two handlers are enough for every pairwise race of sections, which is what the
code's hazards are; TTL and purge interval are 0 or 1 ticks in the runs about
expiry so that a row can expire between any two sections. Two batches are what an outcome of
the one needs to meet the submissions of the other, and two works what a result
needs to be somebody else's. One project
is enough for `coding`, because every request but the list is about one project
only, and three requests let a click meet two polls; which project is opened next
is then settled (a run with two projects and two requests, for a user who waits,
takes longer and finds nothing else). The proofs below remove the bounds for the
properties they name.

What the violation runs show is listed under `findings` in `PROJECT.json`, each
with the sentence of the documentation it contradicts.

Other behaviours the models show, which the passing runs have to exclude or name
in a property:

- A chat turn asked again with the same messages can be posted to its UvA thread
  twice: `thread_state_incr` counts one per turn where the history grows by two,
  so `msg_count > message_count` still holds (`unsettled` in `ContextKept`). The
  same happens when the process dies after UvA took an incremental post and
  before `thread_state_incr`.
- The row of a new thread is saved before UvA is asked to open it (`chat.c:136`)
  and stays when that post fails, because only incremental ones are looked at
  (`chat.c:247`). After a 3xx or 4xx the client is answered 200 with an empty
  completion; after a curl error or a 5xx a client that streams has had its 200
  and just sees the stream end. If it goes on, its next turn is posted alone, with
  `isNewChat` false, to a thread UvA never opened, and the turns before are missing
  (`misled`; run `unopened`), although `translator.h:32` says "Sends only the new
  message with isNewChat:false on an existing thread." So it is when a
  continuation gets a 3xx.
- A request that finds a row whose thread is still to be opened posts its one
  message first; the post that opens the thread comes after it (`OpenedOnce` says
  only that it is one).
- The Responses API answers before it saves (`route.c:178` against `route.c:267`):
  a client that goes on at once finds neither record. The patient client waits.
- A response can be chained from once: `route.c:88` and `route.c:282` drop its
  records. The patient client never forks.
- On a continued thread the continuation check posts the nudge without the tool
  reminder it has just appended (`route_tools.c:71`).
- A continuation check whose call fails leaves the id of a thread UvA never
  opened in the saved row (`route_tools.c:153`).
- The transcript is deleted before the call (`route.c:88`); if the call fails, the
  retried turn saves a transcript without the earlier turns, and only the thread
  row keeps the context.

- A login request that overlaps another may take the session the other is
  working on: two handlers join and free the same struct, or a session is replaced
  and its thread left behind. `calm` in the login properties excludes exactly this.
- A second start that is answered while an interval runs (a click after the
  button came back early) loses the first interval's name: it is never cleared and
  cancels whatever login is under way two minutes after the second began (`leaked`).
- A login of the same account elsewhere replaces its one token; the next call of
  the page that was logged in first is answered 401 and shows the login page.
- `think_parser.c` keeps plain text until its buffer of 4095 characters is full,
  the kind of text changes or the stream ends, although `think_parser.h:8` speaks
  of "emitting each piece via callback as it arrives"; clients of a stream see
  bursts. What they see in the end is the same (`StripsAsWhole`).
- A response that is streamed as text and has no token is one event,
  `response.completed`, and one whose call fails just ends (`route.c:215`); a
  response with tools whose first call fails sends not even the head of a stream.
- Text around the calls of an answer is dropped: `resp_emit_result_sse` sends the
  calls or the text, never both.
- An event that does not fit into the 16 KB of `resp_send_sse_event` is sent with
  the length it should have had. `ReplyAddsUp` is about texts and, in a stream,
  lists of calls that fit.
- Where names do not come first, the search for loose calls may also find one call
  as often as there is room for calls: each further name leads back to the same
  object. `ScanAdvances` and the last case of `CallsFound` have the hypothesis
  `NamesFirst`; `tool_loop` is what happens without it.
- Requests to the Responses API are never logged: only `chat.c` calls
  `db_log_request`.

- A signal between `server_listen` and the accept loop is lost: `g_running = 1`
  (`server.c:186`) undoes it, and main goes round `accept(-1)` until the next one.
  `StopEndsLoop` is about stops that come later.
- Two overlapping `server_stop` close a number twice; `DescriptorsOwned` holds
  until then (`met`).
- `webui_kill_child` reads the pid again for every signal: when the other thread
  has just cleared it, `kill(0, SIGKILL)` ends the whole process group
  (`GroupKilled`).

## 5. Proofs

All proofs are checked by TLAPS for every value of the constants that satisfies
the assumptions of its module (typing of the constants, no bound on their size).

`ChatThreadsProofs` proves `TypeOK`, `ThreadIsolation`, `OpenedOnce`,
`DroppedThreadStaysDropped` and `LiveRowsSurvive` of `ChatThreads`. Isolation is
not inductive: one must know that a handler's thread id was drawn for its own
conversation key, that rows only hold ids drawn for their key, and that posts at
UvA were made under the key the thread was drawn for. These are the conjuncts of
`IInv`; `OpenedOnce` adds that a handler that still has to open its thread is the
only one to do so. `LiveRowsSurvive` needs that no handler has read a later time
than the clock shows (`SeenIsPast`).

The same module proves what clients get, for any number of clients and turns
(`TurnsAssumption`: the requests clients send are among the requests the server
takes): `ClientsAreServed` (clients and server together do what the server
does), `RetriesStartOver`, `NextTurnsContinue`, `ContextKept` and
`NoTurnMissing`. The inductive invariant is `CInv`: a client has one request
under way (`ServedOnce`), and for each client, whatever the row of its
conversation says. `message_count` is a number of turns, so what it tells of the
client depends on where the client and its handler are: at rest it is behind the
next turn; while a turn is under way the row is either still behind it, or the
handler has started the row over or raised it (`Counted`, with `CountStarts`,
`CountSettled` and `RowInUse`). And the thread of a row says everything up to
its `message_count` once, or is still to be opened by the handler that drew it,
or is about to be dropped (`Spoken`, with `RowSays` and `HandlerSays`). Which of
these it is once the client goes on depends on whether UvA has the turn (`Taken`),
and that is what `misled` records: a client that goes on from a turn UvA does not
have is either misled or left without a row. What a thread says is a
concatenation of posts (`FlattenSeq`, a fold), of which nothing is known by
induction; `FlattenSeq` is characterized by the least position at which it could
differ, which `InductionLemmas` has.

`ResponsesApiProofs` proves `TypeOK` and `ConversationsApart` along the same
lines as isolation: transcripts, rows, the handlers' copies of both, and what is
already at UvA all belong to one conversation (`TranscriptsOwned`, `RowsOwned`,
`HandlersOwn`, `PostsOwned`). `ThreadHandedOn` rests on `HInv`: a handler that
took the row of its predecessor and has saved its own finds it in the table
until it drops the other, unless its own was taken for expired, and then so is
the other, which is older (`TakesFromPrev`, `UsedInPast`, `HandsOn`).

Of the patient client (`ResponsesClients`) it proves `OneRecordKept` and
`RetriedInContext`. `PatientInv` says which response the conversation has got to
(one only: what is said grows with every response that is told) and that there
are no records but its own and those of the response that is taking its place.
`ContextInv` says what the threads say: a row's thread, if UvA was asked to open
it at all, has everything said with the response; a handler without a row has no
predecessor, so that what it posts is all there is. This second theorem assumes
`PlainTurns`, as the run does: UvA refuses nothing (a refused continuation is
taken for an empty answer and its turn is missing), and a turn is one message
(what `responses_results` refutes for two).

`InductionLemmas` has the least and greatest element facts these need, from the
library's well-founded induction, and what `FlattenSeq` returns for a sequence
with one more element, a prefix, or one piece for each of its elements.

`AnswerProofs` proves `TypeOK`, `AllPassedOn` and the refinement
`StripsAsWhole` of `ThinkParser` on its own, for any tags that start with `<`
and hold it nowhere else (`ThinkAssumption`; the restart in `mismatch_open` is
right for such tags only) and texts of any length. The inductive invariant says
that the undecided rest of the text is `todo`, `tag` and `token` in this order
(`Placed`), that `tag` is a proper prefix of the awaited tag (`TagIsPrefix`), and
that no tag can start at a character `push_str` is about to push
(`TodoIsPlain`): the last holds because `<` can only be the first of them, and
the mismatch that released them lies inside the window of the tag.

Of `ToolCalls` on its own it proves `ToolTypeOK` and `ScanAdvances`, for texts of
any length and any number of calls. A block ends behind where it starts, which is
not before `p`. An object may end before `p`: that it does not where names come
first is a count of braces. Between the nearest brace and the name there is no
other, so the depth is one up to the name, and the object is open there.

Of `ResponseStream`, where the parsers meet UvA's answers, it proves all the
properties of the run, for any answers, cut into any chunks. `WireAssumption`
keeps the marks of the wire apart from the texts, and says that on a line only
text stands between `data:` and the end of the object, as on the event lines
`process_sse_data` is written for. `WireInv` says that what has been fed are the
texts of the whole lines reached so far, and that the buffer is the rest of what
has arrived; this is `CutAnywhere`. A chat completion then takes steps of
`ThinkParser` only (`ChatThinks`), so what holds of the parser on its own holds
of what a chat client is sent (`ClientIsStripped`). `ReplyAddsUp` rests on
`RespInv`: which text is parsed and which is sent (`AnswerKept`), and what the
events of each type tell together at each stage (`EventsKept`).

`CallsFound` compares the two passes with `Reading`, a recursive function on
positions. That it exists and what its values are is shown without induction
over data, by the least position at which it could fail. `CallInv` says what the
loops have at any point: the calls are those of `Reading`'s blocks up to `p`, the
stripped rest is the text outside these blocks, and the objects taken end before
`p`, each behind the one before it where names come first.

`ProxyProcessProofs` proves `TypeOK` and the four invariants of `process` for any
number of threads, descriptors and retries, which makes up for the one
connection of the run. `ServerInv` adds that stops come one at a time until they
meet, that `g_server_fd` is the server's own unless a stop is between closing and
forgetting it, and keeps connections and other descriptors apart. `WebuiInv` adds
what main's place allows the supervisor (`Shutdown`), when there is no child and
which pid the one there is has (`Whereabouts`), and the forks made per retry
(`Counting`).

`GradingProofs` proves `TypeOK`, `LeavingCancels` and `DeletionFinal` for users
of either kind, which the run cannot cover: impatience multiplies its states.
Cancelling rests on `Cancellable`: every call that is out has its controller on
the list, which one controller removed per outcome preserves. Deletion rests on
`NoRowsLeft`: a deleted session has no rows.

The properties of the batch hold for a user who waits: `OwnResults`, `StatsTrue`
and `QueuedAreGraded` rest on `Calm`, which is claimed for such users only. It
says, step by step of a batch, what the page, the calls and the rows are: the
calls that are out are of the batch on the page and its session, one for each
student that is being graded, what is saved is in the session of the batch, and
the count of what is left to do agrees with the students that are not done.

`CodingPageProofs` proves `TypeOK`, `RowsTrue` and `StatusForward` for any number
of projects and requests, which makes up for the one project of the run. A create
writes a row it has not looked at since it waited for Docker; that this is sound
rests on `CreateOK` (the row is as the create has left it, or deleted) and
`OneCreate` (a project has one create), and the late write of a poll rests on
`StatusOK` (a project found running is running, done or deleted ever after).

`NoOrphans` and `ListTrue` hold for a user who does one thing at a time. `Idle`
says how many actions are under way and of which kind; `Tidy`, claimed as long as
nothing else came between (`calm`), that what Docker and the keys hold belongs to
a row or to the handler that is at work on it, and that the list on the page
differs from the rows only by what an answer on its way will bring.

`LoginPageProofs` proves `TypeOK` and all the properties of the login, for any number of
accounts, sessions and requests. `Types` adds what a handler knows at each of its
steps (`ReqOK`: the stages of each kind of request, and whose account is known
when). `TokensApart` says that no two accounts have one token and that whoever
has been answered a token was told its owner; it holds whatever overlaps and is
what `ShownIsOwner` rests on. `PageOK` says that between a reload and the answer
to it nothing else goes on. The rest holds only in calm: one request at a time, of
a kind that fits what is on the screen (`Alone`); one session, whose thread
finds it pending (`OneSession`); the tokens that have been answered are still in
the table (`TokensHeld`).

Every invariant and every action or refinement property of the passing runs is
a theorem. Only model-checked is liveness (`EveryTurnAnswered`, `StopEndsLoop`):
it needs `ENABLED` for the fairness it rests on, which the provers do not have.
The four runs that expect a violation are TLC's, too.

## 6. Not modelled, and why

Formatting of bodies, replies, events and tool prompts; the members of a call but
its name, and `resp_repair_json`, after which an object parses or does not; the cipher and file formats of
browser cookie stores; Docker, GitHub and UvA themselves, which appear as the
outcomes their callers distinguish. Ids from `generate_thread_id` and
`resp_gen_id` are taken to be fresh. UvA's behaviour is assumed only as far as
the code uses it: it accepts a post, refuses it, loses the answer, or forgets a
thread. Of the parts that keep state, the
management of API keys and the request log are left (`KeysAndLogs` in the plan);
the other components without a module are listed with the reason in `PROJECT.json`.
