# LAN Codex Share: specifications

TLA+ models of LAN Codex Share, the program in `src/` that shows one or more Codex sessions of this
computer to browsers in the local network. The models are checked by TLC on small instances; for the
safety properties of all of them, theorems for every instance are proved with TLAPS.

    tlc -workers 2 -config ChatService.cfg MCChatService.tla
    tlapm ChatServiceProofs.tla

## 1. The system

Paths are relative to `src/lan_codex_share/`.

| Component | State it keeps | Operations | Talks to |
|---|---|---|---|
| `LanChatService` (`lan_service.py`) | FIFO of tasks, table of waiting messages, `active`, `released`, notices, model settings; one worker thread | submit, cancel, cancel/clear queued, resync, settings, release, reconnect, close | `CodexClient` (calls), `SessionProjection` (shared), subscribers (callbacks) |
| `CodexClient` (`codex_client.py`) | connection, own turn, thread status, events the caller waits for | run_turn_items, read_thread, interrupt_turn, settings, close | App Server over `jsonrpc.py`/`websocket_rpc.py`; a reader thread handles what arrives |
| `SessionProjection` (`session_projection.py`) | copy of the thread, history epoch, pending rows | replace, notifications, pages, activities | change handler -> coalescing timer -> broadcast |
| `LanSessionHub` (`session_hub.py`) | services by session, catalogue, default, names, subscribers | add, remove, create service, refresh, submit, broadcast | one `LanChatService` per session, `SessionTasks` |
| `SnapshotDelta`, `StreamSnapshot` (`stream_delta.py`, `web/realtime.js`) | baseline per connection / per page | next / apply | SSE handler in `lan_web.py` |
| `SessionTasks`, configuration file (`session_tasks.py`, `config_write.py`, `desktop/config.py`) | sessions created by request id; the shared JSON file | create, add, remove, save | App Server, hub, desktop program (another process, lock file) |
| HTTP handlers (`lan_web.py`), `DocumentStore`, image store (`document_store.py`, `lan_store.py`) | attachments on disk, rows in `metadata.sqlite3` | save, bind, delete | service, child processes |
| document extraction, archive worker (`document_extract.py`, `archive_worker.py`) | a lock, two slots, child processes | read with a deadline and a memory limit | HTTP handlers |
| `run()` of Share (`lan_main.py`), `AppServerHost`, instance record, `AuthTokens` | lock file, App Server processes, `instance.json`, `auth.json` | start, reuse, close, issue, verify | each other through the files and one port |
| web page (`web/app.js`, `history.js`, `notifications.js`, ...) | selection, history pages, stream, notices | user actions, SSE events | HTTP |
| desktop: services (`desktop/process.py`, `supervisor.py`, `worker.py`) | a process with its supervisor and two pipes | start, stop, force, detach | supervisor, service |
| desktop: window and monitors (`desktop/window.py`, `external_monitor.py`, `tunnel_monitor.py`, ...) | services, modal dialogs, start threads, scans | start, stop, close outside instances, leave, exit | services, other programs |
| desktop: configuration (`desktop/config_page.py`, `config.py`, `origin_sync.py`, `tunnel_port_sync.py`) | a draft, a digest, the lock of each file | edit, load, save, tell the tunnels | files shared with the server and with editors |

Hard behaviours: HTTP handler threads, one worker per session and one reader thread per connection share
state under several locks, some kept over RPCs of a minute; other Codex clients run turns on the same
thread; connections drop and requests time out after they were carried out; a retry sends a message
again; snapshots are built from pieces read under different locks; pages keep a baseline over
reconnections; two processes write one file. `PROJECT.json` lists them as hazards, line by line.

What makes each part correct:

- service: a message runs at most once, oldest first, never after its cancellation was confirmed; waiting
  messages are served; a released session is quiet;
- client: a call reports what became of its own turn; it returns; the busy state is true; a refusal has a cause;
- live updates: no change is lost on its way; a page never has to start afresh; it ends up with the session's state;
- hub and configuration: a session exists once, is not lost by a refresh, and creation is idempotent;
- page: the history has no hole, an end is announced once, a late answer never overwrites a newer one;
- attachments and child processes: files, rows and slots come back whatever fails, and not before;
- processes of Share: nobody ends the App Server of another, a key outlives its Share, logins end with the password;
- services of the desktop program: one left alone lives on, any other ends with its console;
- window: it abandons nothing, it closes in the end, a late scan brings nothing back;
- configuration page: no edit is lost, nothing typed is dropped, what one file tells another is true.

## 2. Modules

| Module | Models | Checked by |
|---|---|---|
| `MessageLifecycle` | what a session promises for its messages (abstract) | refined by `ChatService` |
| `ChatService`, `ChatServiceProofs` | `LanChatService`: handlers, worker, close | run `ChatService`, `tlapm` |
| `CodexClient`, `CodexClientProofs` | `CodexClient`: calls, reader thread, connection; App Server as environment | runs `CodexClient*`, `tlapm` |
| `SharedSessions`, `SharedSessionsProofs` | `SessionTasks`, the configuration file and its writers, `LanSessionHub` | runs `SharedSessions*`, `tlapm` |
| `EventStream`, `EventStreamProofs` | wake-ups, SSE handler, deltas, page | run `EventStream`, `tlapm` |
| `HistoryTimeline` | the class of `web/history.js` and the pages of `history_page` (operators) | used by `Page` |
| `Page`, `PageProofs` | the handlers of `web/app.js` that share the selection, the stream, the requests, the timeline and the notices | run `Page`, `tlapm` |
| `Uploads`, `UploadsProofs` | a message's images, documents and rows from the POST to the queue and its removal; child processes and slots | run `Uploads`, `tlapm` |
| `Instance`, `InstanceProofs` | Share processes from `run()` to their end, App Servers, the record and the forced close, the key of logins | run `Instance`, `tlapm` |
| `Supervision` | one service of the desktop program, its supervisor, the pipes between them | run `Supervision`, `tlapm` |
| `Desktop` | the window: services, dialogs, start threads, monitors, exit and detaching | run `Desktop`, `tlapm` |
| `ConfigEditing` | the configuration page, the files it saves, everybody else who writes them | run `ConfigEditing`, `tlapm` |
| `DesktopProofs` | theorems about the three modules of the desktop program | `tlapm` |
| `MC*` | instances for TLC; the bounds are in the `.cfg` files | |

The modules meet where one sees another's component from outside: `ChatService` sees `CodexClient` as a `busy`
that changes at any time and a call that returns or raises; `SharedSessions` sees a `LanChatService` as what
the hub reads of it; `EventStream` sees any change of a session; `Page` sees frames as the snapshots they stand
for; `Desktop` sees a service as the states of `Supervision`; `Uploads` sees the queue as what claims and withdraws.
`Supervision` and `ConfigEditing` have specifications with names of their own (`ProcessSpec`, `ConfigSpec`), because
`DesktopProofs` extends all three modules of the desktop program.

Definitions named `Bad...` stand before the definition they spoil: each is a slip of the code (a dropped
guard, a swapped order, a missing reset) that one of the properties must notice. No action uses them.

### ChatService

`queue`, `queuedTasks`, `active`, `released`, `stop` are the fields of the class; `pending` is the status
of the projection's rows; `wpc` is where the worker is in `_work_loop`; `lock` is `_queued_lock`, named
after the handler when it is kept over an RPC and `"free"` otherwise. A critical section without an RPC is
one action; one with an RPC is a `...Begin` and an `...End`; what follows the lock (the removal of rows) is
an action of its own, because the code does it without the lock. No handler can find the service before `start()` has
returned. `closing` is how far `close()` is: it
gives up on the worker after ten seconds, so the worker may still be anywhere. The Codex client is seen
through what this class reads of it: `busy` changes at any time while a connection is open, and
`run_turn_items` returns or raises. `ran`, `withdrawn`, `ticket` and `clock` are history variables.

`MessageLifecycle` is the promise: `Submit`, `Withdraw`, `Begin`, `End`, `Release`, `Reacquire`.
The refinement mapping computes the status of a message from the history variables and `active`.

Fairness (`FairSpec`, for `WaitingIsServed` only): the worker thread is scheduled; a handler that keeps
the lock over an RPC ends, because every RPC has a timeout of 15 to 60 seconds; a lock the worker asks
for again and again is obtained in the end. Nothing is assumed of `busy`: that the worker, which asks for it every
250 ms, finds the thread idle in the end is a premise of the property (`FindsItIdle`), for the code may leave it busy
for ever (section 4). Submission, release and the like are never forced.

### CodexClient

`pc` is the place of the calling thread: `LanChatService` calls from one thread at a time, except
`interrupt_turn`, which is `UserInterrupts`. `OnReply`, `OnTurnStarted`, `OnTurnCompleted` are the reader
thread. `active`, `starting`, `done`, `turnError`, `threadTurn`, `busy` are the fields `_active_turn_id`,
`_starting_turn`, `_turn_done`, `_turn_error`, `_thread_turn_id`, `thread_busy`. The worker tests `thread_busy` in one step
(`WorkerLooks`, `lan_service.py:402`) and calls in a later one (`CallTurn`, after it has got and claimed a message): a turn of another
client may start in between (`looked`).

The App Server is not in the repository. It is modelled from what the client expects of it: one turn at a time
on a thread, an error for `turn/start` while one runs, answers and notifications of the same effect in either
order. A scene (`scene`, chosen in `Init`) says how many calls and turns of other clients there are and what may go
wrong besides: lost connections, requests whose timeout passes, turns whose timeout passes, a refused resume.
`BusyIsTrue` is claimed of scenes that nobody else takes part in, over a connection that holds and is answered in time (only
the timeout of a turn may pass, and a resume be refused); `VerdictIsTrue` of these, and of any other as long as every turn
of the thread is of the present call. Section 4 says what happens in the others.

A connection that cannot be opened again is closed with what has arrived on it and nobody has read.
Simplifications: a request that only asks for a state is forgotten with its answer once its timeout has
passed; a failing `initialize` is a failing resume; the texts of answers are left out, except that a turn
may end without one (reported as an error). `strict_resume` is on, as `lan_main.py` sets it.

Fairness: the calling thread's own steps, and that timeouts pass. Nothing is assumed of the App Server.

### SharedSessions

| Variable | Code |
|---|---|
| `thread` | the App Server's threads: none, listed or archived |
| `file`, `draft`, `saving` | `session_mode` and `session_ids` of the configuration file; the copy the desktop program has loaded; the change it has compared and not yet written |
| `record`, `saved`, `migrated` | `SessionTasks._state`, in memory and in `shared_sessions.json` |
| `op` | the operation that holds `SessionTasks._lock`: its place, its sessions, the file it has read and the list it will write |
| `hub` | `_catalog_mode`, `_catalog_by_id`, `_added_by_id`, `_fixed_ids` (`None` is the set of all sessions), `_default_session_id` |
| `service`, `work` | `_services_by_id`, and what the hub reads of each service |
| `refresh` | the refresh thread's local variables in `refresh_catalog` |
| `user` | the request that holds `_service_create_lock` over RPCs |

An operation of `SessionTasks` is a sequence of actions, one per RPC, write or critical section; those with an
outcome that may fail have a failing alternative (`OutcomeUnknown`, `ShareFails`, `RemoveFails`; a change
that the user has not confirmed is one of them). Two locks are derived instead of being variables:
`_service_create_lock` from `user` and the place of `remove` (`CreateLockFree`), the lock file from the place of
`op` (`ConfigLockFree`). `Restart` ends the process at any step and starts it from what is on disk.
Comparing the digest and replacing the file are two steps, for the server (`ShareCompares`/`ShareSaves`,
`RemoveCompares`/`RemoveSaves`) and for the desktop program (`DesktopCompares`/`DesktopSaves`); the lock keeps the
two from being between them at once, a text editor asks for no lock. An edit by hand in that window is overwritten
(`config_write.py:48-50`, `desktop/config.py:129-131`): `late` holds the file with such edits, `NoLostEdit` says that
nothing else is lost and that they stand when the writer gives up. In the bounds of the run the editor comes into the
server's window; the desktop program's is run in `ConfigEditing`, and the theorem covers both. New threads get their ids in a fixed
order (`NewId`): ids are interchangeable. `"auto"` mode is a selection of one session.
`madeFor`, `chosen`, `edited`, `late` and `removed` are history variables.

Fairness (`StaleIsReleased` only): the refresh thread and the workers run; a request that holds the create lock
over RPCs ends, because they have timeouts. Operations, edits and restarts are never forced.

Two properties exclude edits made since the server was started (`~edited`): a changed file takes effect
with a restart (`README.md:208` of the repository). Without that condition both fail, which shows how such an
edit acts meanwhile: the next addition or removal through the page makes the whole file the membership
(`fix_membership`), and `refresh_catalog` then takes the default from the added sessions without asking
whether they are in it (`session_hub.py:392`).

### EventStream

The pure part is `SnapshotDelta.next` (`Frame`, `TurnDelta`, `ItemDelta`) and `StreamSnapshot.apply`
(`Applicable`, `Patched`): a snapshot is an epoch, fields and turns; a turn has fields and items; an item a
text, a sequence of letters, because the code appends to it. The rest is the way of a change: `Change` and `notifier` (the changing thread on its
way through `_projection_changed` and `_broadcast`), `armed` (the coalescing timer), `signals` (the
number of entries of the subscriber's queue; their values are not used), `handler` (the SSE thread),
`wire`, `browser`. `Disconnect` loses what is on the wire; the page keeps its baseline.
A frame that could not be applied would make the page start afresh; `BrowserHasBaseline` shows there is
none, so that branch of `app.js` is not an action.

Fairness (`Converges` only): the threads run, the timer fires, the page handles what it receives.

### Page

`HistoryTimeline` has the operations of the class as functions of its fields; an entry is a turn's status with
the epoch it came from. `Page` is one browser page; an action is what runs between two awaits.

| Variable | Code |
|---|---|
| `server`, `login` | epoch, version and turns of each `SessionProjection`; whether the page's cookie is accepted |
| `authed`, `selected`, `ready` | `appAuthenticated`, `selectedSessionId`, `deltaStreamReady` |
| `source` | the `EventSource` with the generation it belongs to, the `onerror` that awaits the login's status (`checking`), the handler in `lan_web.py` (`last`) and the frame between the two (`wire`) |
| `refresh`, `timer` | the request of `refresh()`, with `refreshQueued` and what `streamRevision`, `selectionGeneration` and the abort make of its answer (`fate`); `refreshTimer` |
| `lastVersion`, `timeline`, `loads` | the version shown (0 for -1), the `HistoryTimeline`, and its requests (`current`: of this generation) |
| `tracker` | `TaskCompletionTracker` |

A frame is the snapshot it stands for (`EventStream` is about how), one is under way at a time, and notifications
are switched on. A request of the page that ends in `refresh()` is `Operates`. Turns have numbers instead of ids.
`announced` counts the notices of each turn; `away` is history, the turns that ended while the page was not logged in
on their session. Text that is being written, and the scroll position but for
`following`, are left out.

`MaxTurns` bounds the turns a session may have; `ConstantsAssumption` says that the changes do not exceed it.

Two weaknesses of the code are written into the properties as exceptions, so that they exclude nothing else.
The first frame of a stream is shown although a newer answer of `refresh()` has been shown already
(`StaleFirstFrameArrives`; section 4 says what comes of it). A page of earlier history that was asked
for before the followed timeline dropped its oldest turns (`history.js:104`) leaves a hole when it comes in (`ComesIn`).
Two exceptions follow from the first and need three changes of a session, one more than the run has; the
proofs found them. Until the frame after a stale one, the page shown last is not the newest (`Behind`), and then an
end may be taken back; and a page of earlier history may meanwhile show as ended a turn that was shown as running,
which is not announced.
Besides, `PageConverges` says nothing of a page whose `EventSource` is closed: after an answer that is not a
stream (an error page of a tunnel, an error before the headers) the browser does not connect again, and nothing in
`app.js` does, although its notice (`app.js:1373`) says so.

Fairness (`PageConverges` only): the browser connects and delivers, answers come, the timer fires, the server
ends a stream without a login at the next heartbeat. Nothing is assumed of the reader, the turns or the faults.

### Uploads

`at[w]` is where the thread that serves a request is: a message goes through `_save` of images and documents, each
document through a child process (`document_extract.extract_isolated`), then `submit()`; a request about an archive
asks for a slot and runs its child (`archive_worker.run_archive`). `free` is the extraction lock and the two
archive slots, `child` what the child has done, `image`, `file` and `rows` what is on the disk and in the database,
`task` and `removing` the worker's claim and what cancellations popped. A child may answer, fail, die or hang, and
may outlive its kill, whatever it had sent (`ReapFails`). Writing a file, unlinking one (also one that such a child
still reads), the rows and the transaction that removes them may each fail, and what the code then skips stays (`ImageFails`,
`UnwindFails`, `CleanFails`, `DeleteTaskFails`). `spoiled` and `wedged` are history: they name the failures the properties except. Every request has the same attachments; a crash is not modelled, since
nothing in the code cleans the stores after one.

Fairness (`EveryRequestEnds`): the threads of requests go on. Nothing is assumed of a child: the deadline ends it.

### Instance

| Variable | Code |
|---|---|
| `share` | a Share process: its place in `run()`, its configuration and password, the key it signs with, `AppServerHost._reused`, what `_capture_process_tree` found |
| `app`, `port` | the wrapper `codex` with its child of each Share, and who listens on the App Server's port |
| `lock`, `record`, `saved` | `server.lock`, `instance.json` and `auth.json` of each configuration |
| `force` | `force_close_share` on a thread of the console: confirmed, verified, killed, children |

A process is its pid with its creation time, as in the code. The first Share was killed at an unknown place and may
have left its App Server, its record and a login (`Init`). What `close()` may not end, or cannot, goes on (`CloseApp`), the
capture may have nothing (`Captured`), and a login is within its thirty days or not, as the clock goes (`Clock`). Any Share may be killed, any write of the record may fail
(only logged in the code), and the port may be opened by anybody between the probe and the start. `taken` is history.

### Supervision

`handle` is the console's `ServiceProcess`, `sup` the supervisors by start, `service` what they started, `pipe` and
`output` the two pipes, in the order written; what an earlier supervisor wrote may be read after the next start, as
the code's reading threads may (`reader`). That a confirmation is of the present supervisor is tested in `Hear`, and the
event is set in `Confirm`, without a lock in between; `overtaken` remembers that the last start came there. `detaching`
is `detach()` on its thread. `told` is the `stop` event of the supervisor, `listening` its `commands()` thread.
`Killed` ends the console at any step, `Leave` is the end of the window after every `detach()` has returned.
`running` here is the supervisor's process; a tunnel has no pipe, so what is left of it when its supervisor
is killed is an orphan, which `EndsWhenTold` allows.

Fairness (`EndsWhenTold`): the supervisor's threads run, and a service that was asked to stop stops. Nothing is
assumed of the console.

### Desktop

The window has one thread, but a modal dialog runs an event loop of its own: `dialogs` is the stack of open modal
dialogs, and everything else goes on under them. `button` is what the last `refresh()` drew, so a button may be
pressed that the state no longer allows; `starter` is the thread of a start, `jobs` the scans and closes of the
monitors with their generation, `win.todo` the services the detaching thread has still to ask. An inspection finds
nothing, one instance, or something it cannot tell apart, also when there is one.

Fairness (`ExitEnds`, `MonitorsGoOn`): Qt runs timers and queued results, threads run, a cancelled download ends, and
fifteen seconds pass for a service that does not stop. The user does nothing by force of fairness.

### ConfigEditing

A file is its port, its entries and the set of edits that went into it; its digest is the file itself. `page` is
the page with its `ConfigDocument` (form, text, digest, updates, invalid fields), `job` the save in progress with its
comparisons and questions, `store` a `SessionConfigStore.mutation()` of the server, `lock` the lock file of each
configuration file. Editors take no lock. `missed` are the edits that fell between the writer's last comparison and
the digest it reads back, which the code cannot see; `moved` what changed since a synchronisation last looked.
The updates of a form are kept in the order they were made; of each field the last one counts (`LastSet`), because the
code keeps them in a dictionary.

## 3. Runs

| Run | Bounds | What it shows |
|---|---|---|
| `ChatService` | 3 messages | what waits is reachable; queued and processing rows are true; withdrawn messages never run; a released session is quiet; no turn begins under a resync or a model change; refinement of `MessageLifecycle`; waiting messages are served |
| `CodexClient` | 3 calls alone, or 1 call (2 attempts) with 1 turn of another client and every fault | a call waits for its own turn only, tells the truth about it and returns; the busy state is true where there is neither another client nor a fault |
| `CodexClientOverrun` | 2 calls | **violation**: a call is refused though nothing runs |
| `SharedSessions` | 1 session, 2 that may be made, 1 request id; 2 operations, 1 message, 1 disturbance (edit, restart, release, change by another client) | one thread per request; no edit lost; what is shared is what is saved; removed sessions are free; services of sessions gone are closed in the end |
| `SharedSessionsBusy` | 2 sessions, 1 message, 1 disturbance | **violation**: the refresh closes a service that is running a message |
| `EventStream` | 2 threads and the timer, queue of 1, page of 1 turn, 2 changes, 2 letters, 1 lost connection | no wake-up is lost; every frame applies and the page's copy is the server's baseline; the page converges |
| `Page` | 2 sessions with 2 and 1 turns, pages of 1 turn, a followed timeline keeps 1; 4 of: 2 changes, 2 moves of the reader, 1 fault | the history shown is unbroken; an end is announced once; no answer goes back; the latest page is shown in the end |
| `Uploads` | 2 messages with 2 images and 2 documents, 2 requests about archives for 1 slot | what waits or runs has its files; what was refused or withdrawn leaves none; slots come back; every request is answered |
| `Instance` | 2 Shares after one that was killed, 2 configurations, 2 passwords, 1 login, 1 forced close at a time | nobody ends another's App Server; the key of a running Share stays on its disk; logins follow the password and their thirty days |
| `Supervision` | 2 starts, 3 lines in the pipes | what the console holds is of the present supervisor; what it left alone on that supervisor's word is not told to stop; the rest ends |
| `Desktop` | Share and a tunnel, each started once; either 1 Share outside, closed once, or both are the window's; 2 dialogs | a closed window abandons nothing; what was reported closed does not come back; an exit ends; monitors go on |
| `ConfigEditing` | 2 ports, 2 entries, Share's file, cloudflared's and two of frpc, 2 edits | synchronised ports and entries are true; the draft is kept; no edit is lost |

Why the bounds suffice. Three messages are the least with one running, one withdrawn between two others and
one waiting, so that order, skipping and release can conflict. One call with its retry meets every fault at every
place; three calls let the leftovers of one call meet the next. A queue of capacity 1 is full after one wake-up, so the
code's branch for a full queue is taken in every interleaving with the drain; a page of one turn lets turns leave it
after one change. Two operations on the shared sessions are a creation and its retry, or an addition and a removal, and
one disturbance falls between any two of their steps; the second id shows a second thread if one is made.
With pages of one turn a turn leaves the window with every change, two changes that pass between two frames leave
a hole, and two sessions are enough to come back to the first. Two documents give a failure a first half to undo; two
messages a clean-up somebody else's files to take by mistake, and with one archive slot (two in the code) the second
request is refused. Two Shares can race for the port and for the lock, the killed one left the stale files. A second
start is what an old supervisor can be confused with. Two dialogs nest a question in another. Two edits are one
on the page and one elsewhere, at any point of a save.
`CHECK_DEADLOCK FALSE` where the instance really stops: a closed service, a closed window, calls, changes or starts used up.

## 4. Where the code differs

Two runs expect a violation:

- `CodexClientOverrun`: `codex_client.py:276`. A turn ends just as its timeout passes, the interrupt is answered
  with an error, and `_active_turn_id` is never reset: every later message fails with "已有 Codex turn 正在执行".
- `SharedSessionsBusy`: `session_hub.py:408`. `refresh_catalog` closes the services it found quiet without looking
  again; one that took a message in between is closed while it runs it. The design
  (`docs/superpowers/specs/2026-08-26-all-session-project-catalog-design.md:36`) keeps it until the task has ended.

The others are written into the properties as exceptions, each named at its property, so that they hide nothing else:

- `codex_client.py:602`: while the own turn is being started, the completion of another client's turn, or of an own
  turn given up by an earlier call, is taken for the own (`VerdictIsTrue`).
- `codex_client.py:203`: the status in an answer overwrites newer notifications; the thread may be shown busy for
  ever, and then the worker waits and a release is refused (`BusyIsTrue` is not claimed of scenes where it can, and
  `WaitingIsServed` supposes that the worker finds the thread idle in the end).
- `web/app.js:1344`: after opening a page or selecting a session, an answer of `refresh()` may be shown before the
  older first frame of the stream. Both are shown; the end, long ago, of a turn that had left the window in between is
  announced, against `README.md:274` of the repository (`StaleFirstFrameArrives` in `TimelineStaysWhole` and
  `AnnouncedOnce`, `FirstFrameArrives` in `NothingGoesBack`).
- `desktop/window.py:378`: a button drawn before the exit was confirmed still starts a service or opens a dialog, and
  nothing stops that service, although the dialog promises that all are stopped (`desktop/dialogs.py:31`; `ExitEnds`).
- `desktop/supervisor.py:72`: a stop asked behind a detach that timed out is lost when the console is killed before
  either is read: the confirmation that cannot be written ends the thread that would have read it; the same when the
  window leaves on the confirmation of a first detach with a stop behind a second one unread (`EndsWhenTold`).
- `desktop/process.py:116`: `_line` tests `self._process is process` and sets `_detached` without `_lock`. A start in
  between makes the confirmation of the old supervisor one of the new: the next `detach()` returns at line 72 without
  having asked, the window closes, and the end of the pipe stops the service that should have lived on
  (`overtaken` in `NewsIsOfThisProcess` and `LeftIsKept`).
- `desktop/config.py:50`: `load()` takes the digest of a file before it finds that it cannot be decoded; the page keeps
  the text of before, and saving it replaces the file without a warning, against `DESKTOP.md:68` (`NoEditLost`).
- `desktop/config.py:129`, `config_write.py:48`: an edit by a program without the lock between the last comparison and
  the digest read back is neither seen nor kept (`NoEditLost`, `SyncIsTrue`).
- `document_extract.py:170`: a child that outlives its kill by two seconds makes `process.close()` raise before
  the lock is released; documents are refused with "文档解析繁忙，请稍后重试" until the restart. `run_archive`
  releases its slot in an outer `finally` (`SlotsComeBack`).
- `lan_store.py`, `document_store.py`, `lan_web.py:651`: an image that cannot be written whole stays; the first file that
  cannot be unlinked keeps the ones after it, and at `lan_web.py:651` the documents too; `delete_many` that fails on a
  locked database keeps rows whose files are gone, and `clear_queued` then leaves the files of its remaining tasks
  (`NothingLeftBehind`).
- `lan_app_server.py:105`, `117`, `160`: an orderly end may leave the App Server: after a start that was given up before
  the port opened, or whose tree could not be captured, only the wrapper is ended, its child goes on or comes up later,
  and so does a process that refuses to be ended. The next Share finds and reuses it (`Captured`, `CloseApp` of
  `Instance`); no document or test says otherwise, so no property does.

## 5. Proofs

Every safety property that a passing run checks is also a theorem, for every value of the constants that satisfies
the assumption of its module. TLC checks a property and its invariant first, the proof shows that the bounds do
not matter. `tlapm` is given one module per component:

| Module | Proves | Assumes |
|---|---|---|
| `ChatServiceProofs` | `WithdrawnNeverRuns`, `WaitingIsReachable`, `ReleasedIsQuiet`, `QuietUnderLock`, `RowsAreTrue`, `ImplementsLifecycle`, types | `StopTaskAssumption`: the `None` that `close()` enqueues is not a message |
| `CodexClientProofs` | `WaitsForOwnTurn`, `VerdictIsTrue`, `BusyIsTrue`, types, one answer at a time | `ScenesAssumption`: the scenes are scenes |
| `SharedSessionsProofs` | `OneThreadPerRequest`, `NoLostEdit`, `RemovedIsFree`, `SharedIsSaved`, types | `SessionsAssumption`: old and new ids differ, and the markers are not ids |
| `EventStreamProofs` | `NoLostWakeup`, `BrowserHasBaseline` | `ConstantsAssumption`: the timer is no other thread, bounds are numbers |
| `PageProofs` | `TimelineStaysWhole`, `NothingGoesBack`, `AnnouncedOnce`, `OneLoad`, types | `ConstantsAssumption`, `PagesAssumption`: numbers, and a followed timeline keeps at least a page |
| `UploadsProofs` | `KeptWhole`, `NothingLeftBehind`, `SlotsComeBack` | `UploadsAssumption`: attachments are numbered, there is an archive slot, no message is a request about archives |
| `InstanceProofs` | `OnlyItsOwn`, `KeyIsOnDisk`, `LoginsFollowThePassword`, types | `InstanceAssumption`: finitely many configurations, bounds are numbers |
| `DesktopProofs` | `NothingAbandoned`, `NoGhost`; `NewsIsOfThisProcess`, `LeftIsKept`; `NoEditLost`, `SyncIsTrue`, `DraftIsKept`; types of all three | `DesktopAssumption`, `BoundsAssumption`, `ConfigAssumption`: what is installed is a service, bounds are numbers, the names of the files differ |

Few of the properties are inductive alone. What their invariants add, and why:

**ChatService** (`IInv`). What is in the FIFO, in the worker's hands or waiting has a ticket, and tickets grow along
the FIFO, so the head is the oldest (refinement); each message is in the FIFO once and not also in the worker's hands,
so a waiting one is not lost when a copy is skipped; the waiting, withdrawn and handed-over messages are disjoint;
`active` is set exactly while the worker is on a message; a released service, and a handler that keeps the lock,
exclude `active`. `Refinement` shows that each action is the corresponding action of `MessageLifecycle` or a stutter.
`RowsTrue`: the rows of the projection are written before or after the table they show, in a step of their own; what
lies between is exactly the removals still to be made and the start or the end the worker is in the middle of.

**CodexClient**. `Types` and `OneFuture` (one live request, its answer on the wire or in the caller's hands, and only while
the caller waits for it) hold of every scene. From them `OwnInv`: what a waiting caller is told of `turn/start`
is a turn of its own call, so it waits for no other. `EndsAreTrue` follows what is said of ended turns, in any scene.
It gives `VerdictIsTrue` where all turns are of the present call. The rest of it, and `BusyIsTrue`, need `CalmInv`, for
scenes with a connection that holds and without other clients: on the wire are events of the newest turn only, each once and
in order, and the client knows of that turn, or will, until it has been told of its end; a caller that waits has
the newest turn; an answer says what that turn is at; and a thread that the worker has found idle stays idle until the worker
calls (`CalmLook`).

**SharedSessions**. `TypeOK` is inductive. `ThreadInv`: a request without a record, in memory or on disk, has no thread, and an
operation that asks for a thread has its record in both; without the part about the disk a restart would forget a
thread. `EditInv`: the list an operation will write is the list it has read with its own change, and what a writer
has compared is what the confirmed changes amount to until it replaces it. `FreeInv`: a
removed session is outside the membership, so that no list read earlier by the refresh brings it back, and nobody holds
the create lock while a removal does. `SavedInv`: what is shared is what the file says, and between the saving of the
file and the end of the operation differs by the sessions of that operation; a refresh holds a catalogue, and
a request a session, that is in the membership. Each is proved from `TypeOK` with one case per action that touches it.

**EventStream**. `Fresh` is `NoLostWakeup` one step earlier: what the handler has read and not yet sent is the
session as it is, or something is coming: an entry in the queue, the timer, or a thread on its way, also one that
finds the queue full twice. `BaselineInv`: there is a chain of baselines from the page's to the server's,
one for each frame on the wire, and each frame is the delta between two of them. The step rests on a lemma about
the pure part, `DeltaIsExact`: patching a snapshot with the delta to another gives the other, for turns that leave
and enter the page, changed fields, appended and rewritten texts.

**Page** (`PageInv`). What has been shown is true of some earlier state, and histories only grow, so that how far two
states reach can be compared (`Steps`). The timeline reaches no further than the session (`TimelineInv`); a delta on
the wire reaches at least as far as what is shown, and until the first frame has come nothing newer is shown
by another way (`StreamInv`); a wanted answer of `refresh()` likewise (`RefreshInv`); a page of earlier history lies
behind the newest turn shown and its turns have ended (`AllRequests`); what has ended and is unknown to the
tracker is earlier than the page shown last (`TrackerInv`); a turn that was announced, or ended while the page did not
look (`Past`), has ended in every snapshot on its way, or the tracker knows it, or it is off the page, and a page that is logged out has neither
stream nor tracker (`LoggedOut`). The lemmas before the steps say what `Updated`, `Render` and a page
that comes in do to a timeline. The proof found the two further consequences of a stale first frame that
section 2 names; before, the properties were false for three changes and more.

**Uploads**. `IInv` says what is stored of a message at each place of its request (`Progress`), and that the worker and each
cancellation have messages of their own (`Owners`), without which the clean-up of one would take what another
holds. `SlotInv`: of each pool, the free slots and the requests that hold one (a finite set, whose cardinality the
steps change by one) make up the capacity but for the lock that a child outliving its kill has wedged.

**Instance** (`IInv`). A lock is held by the one Share that has passed it (`LockHeld`), so that no other draws a key for its
configuration; a Share with a key has the key and the password that are saved, and a login is good exactly when its key
is the saved one (`KeysMatch`); a forced close has only children of the process it was confirmed for
(`ForceOfTarget`). `KeysMatch` needs `LockHeld`: without it a second start with another password would replace the key of
the Share that runs.

**Desktop**. While a close is being chosen it is the only dialog and nothing starts (`ChoosingInv`); while services are asked to
live on, no dialog is open and nothing starts, and each has confirmed or is still to be asked (`DetachingInv`): that
is why the choice still holds when the window closes. For `NoGhost`, the monitor, its jobs and the dialogs know only instances
that there have been (`Known`, `DialogsKnown`); a close is the only job of its generation (`Ordered`); a
scan of the present generation found nothing that was reported closed (`Gone`).

**Supervision** (`ProcessInv`). A supervisor not yet started has said and been told nothing; what the present one wrote
and nobody has read is true of it; what a reading thread is about to confirm is true of it too, or a start overtook that
thread (`ReadersConfirm`); a `detach()` that has returned for a supervisor that runs was confirmed (`DoneIsConfirmed`); as
long as the user has not asked, nobody told it to stop and no `stop` waits in its pipe. `Follows` sums up what any step of a supervisor can do to this, so that it is shown once for all of them.

**ConfigEditing** (`ConfigInv`). Who writes a file holds its lock (`LocksHeld`). The text on the page, the text of a save and
that of the server's store have every edit of the text whose digest they will be compared with, and after the last
comparison every edit of the file but the missed ones (`PageHasEdits`, `JobHasEdits`, `StoreHasEdits`): that is
`NoEditLost`. What was typed is on the page and not in the text that was loaded (`DraftInv`), so that the page
differs from its baseline and `discard()` asks. For `SyncIsTrue`, the page that is synchronised from is the file as it
was saved (`Saved`), the ports still to be written are those of the page (`Following`), so is the entry (`Offering`), and
from the check to the end of the second save every change is in `moved` (`Checked`); the second file is never the first.

Only model-checked are the liveness properties (`WaitingIsServed`, `CallReturns`, `StaleIsReleased`, `Converges`,
`PageConverges`, `EndsWhenTold`, `ExitEnds`, `MonitorsGoOn`, `EveryRequestEnds`): each rests on fairness, and liveness under
fairness is out of the proof system's reach. The violated properties of section 4 are TLC's, of course.

## 6. Not modelled, and the plan

Still worth a module, most important first: the composer of the page (drafts and sending, `sendCurrentMessage`), the
login limiter, `ProjectProfiles` (the revision check on save), which model settings are stored and shown.
Still worth a proof: that `Desktop` sees of a service what `Supervision` does (the states of `own` as a refinement
of the supervisor's), and that the timeline of `Page` is what the class of `web/history.js` gives for any sequence of calls.

Left out for good: layout and wording of pages and dialogs, parsing of the configuration, rewriting of proxied
pages, extraction of text from documents, reading of archives, address rules, release scripts. They are functions of
one input without state.
