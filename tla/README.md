# A TLA+ model of GM7

GM7 (its desktop application calls itself GORKH) lets a user start *runs* and remote actions from a
browser, or talk to an assistant on the desktop, and have them carried out on that desktop after an
approval. An API process (`apps/api`, Fastify) stands between browser and desktop: it keeps runs, devices,
actions and sessions in memory and in Postgres, and reaches the desktop (`apps/desktop`, Tauri: a
TypeScript window and a Rust side) over a WebSocket that is fed from a Redis stream. This directory holds
TLA+ modules of the parts whose behaviour depends on the order in which things happen, the TLC runs that
check them, and proofs for TLAPS.

Paths below are relative to the repository; `A/` is `apps/api/src/`, `D/` is `apps/desktop/src/`,
`T/` is `apps/desktop/src-tauri/src/`, `W/` is `apps/web/`.

## 1. Inventory

| Component | State it keeps | Operations | What makes it hard | What makes it correct |
|---|---|---|---|---|
| Device command queue (`A/lib/device-commands.ts`, `A/lib/redis.ts`, gateway part of `A/lib/ws-handler.ts`, `D/lib/wsClient.ts`) | Redis stream, consumer group, entry/ack/retry keys; `deviceGatewayLoops`, `deviceInFlightCommands`; `handledCommandAcks` | enqueue, cleanup, read pending/new, send, ack, retry, hello, close, reconnect | one socket per Redis command, every failure swallowed; many tasks between awaits; crashes on either side | no command is dropped unanswered, none is handled twice by one session, records are true, the queue drains |
| Run lifecycle (`A/store/runs.ts`, `A/engine/runEngine.ts`, handlers in `A/index.ts` and `A/lib/ws-handler.ts`, `A/lib/run-recovery.ts`, `A/repos/runs.ts`) | run record, `activeEngines`, `pendingApproval`, engine coroutines, rows | create, accept, decide, cancel, update, engine steps, save, restart | cancels and decisions between two awaits of the engine, late messages, unordered saves, restarts | nothing is completed without consent; stop means stop; outcomes are final; every engine settles its run |
| Remote actions and tools (`A/store/actions.ts`, `A/store/tools.ts`, handlers) | action and tool-call status, in memory and in rows | request, dispatch, ack, result | reports that overtake each other at a rate limit, lost answers, reconnects | a record tells the truth, an action is executed once and ends |
| Desktop approvals (`D/lib/approvals.ts`) | approval items, persisted | add, approve, deny, expire, execute, rehydrate | restart while executing, expiry against approval | an item is executed at most once and only if approved |
| Desktop assistant (`D/lib/aiAssist.ts`, `assistantEngine.ts`, `actionExecutor.ts`) | per engine: loop status, current proposal, counters, abort signal; the engine in the ref | start, switch, stop, cancel, pause, resume, propose, approve, reject, answer | stop and pause during an awaited model call, screenshot or start; engines that lost the ref and go on | what was approved is what is executed; what the user stopped executes nothing more |
| Rust agent (`T/agent`) | task, pending interaction, cancel flag | start, plan, step, ask, answer, cancel | cancel against a question; events crossing two languages | an answer approves the question it was given to; a cancel ends the wait |
| Desktop chat (`D/App.tsx`, `D/lib/chatTaskFlow.ts`) | turns, task to confirm, saved message, set-up of Free AI | send, confirm, cancel, dispatch, replay | late answers of the model, install progress | an abandoned turn asks nothing; a saved message is resumed |
| Overlay window (`T/lib.rs`, `D/lib/overlayMode.ts`, effect in `D/App.tsx`) | overlay flag, window snapshot | enter, exit, status, close | calls of an effect and of buttons overlap, window calls fail half-way | nothing of the overlay is left, the window is as before |
| Local AI runtime (`T/local_ai.rs`) | child process, progress, files | install, start, stop | two starters, a process that dies, a half-written file | no orphaned child, progress that tells the truth |
| Desktop sign-in, device tokens, pairing, ownership (`A/lib/desktop-auth.ts`, `desktop-session.ts`, `A/repos/devices.ts`, `D/lib/desktopAuth.ts`) | attempts, handoffs, tokens, owners, keychain | start, complete, exchange, pair, claim, hello, sign out | row and memory written apart, tokens on their way | one owner, in row and memory; the keychain holds the newest token |
| Browser sessions (`A/repos/sessions.ts`, `A/lib/auth.ts`, `W/lib/auth.ts`) | session rows; cookies, stored token | login, refresh, logout, logout everywhere | two tabs, refresh against logout, lost answers | the cookie is live or gone; a revoked session stays revoked |
| Billing (`A/index.ts`, `A/repos/users.ts`, `A/repos/stripe-events.ts`) | customer and subscription of a user, handled event ids | checkout, webhook | duplicated, reordered or half-processed events | an event is neither lost nor applied twice |
| Presence and screen preview (`A/lib/presence.ts`, `A/store/screen.ts`, `D/lib/screenStreamer.ts`) | presence keys, stream state, last frame | hello, touch, clear, toggle, frame | reconnect against close, late frames | a frame is shown only while the preview is on; a connected device is shown |
| Web dashboard (`W/app/dashboard/legacy/page.tsx`) | lists, stream of events, session check | load, poll, hear, submit, reconnect | overlapping polls, broken streams | the lists catch up, the stream comes back |
| Releases and updates (`A/lib/releases`, `D/lib/desktopUpdater.ts`) | release cache; updater state | feed, check, download, restart | one busy flag, renders that begin a check | every check ends |
| Desktop's view of its runs (`D/App.tsx`, `D/components/RunPanel.tsx`, `ApprovalModal.tsx`) | active run, list of recent activity, dialog of an approval | hear of a run, load the list, select, decide, cancel | a message, a load or a click about another run than the one shown | what is shown was so; a decision reaches the run that asked |
| Stored runs of the assistant (`A/repos/runs.ts`, `A/repos/actions.ts`, `A/lib/run-privacy.ts`, sanitizers of `packages/shared`) | proposal, log, actions and their count, in memory and in rows | propose, log, act, save, load, recover | what is loaded is the redacted form and is saved again; failing saves, overlapping handlers | no text of a user in a row, what the rows tell stays true |
| Rate limits (`A/lib/ratelimit.ts`) | counters in Redis by window, timestamps in memory | consume | three awaits per request over the end of a window, commands that hang, fallback to memory | no window lets more through than its limit |
| Redis client (`A/lib/redis.ts`: `runRawCommand`) | a socket and a promise per command | connect, send, parse, settle | replies in chunks, refusals, silence, a connection that is closed | a call gets its own reply or fails, and ends |
| Provider settings (`D/App.tsx`, `D/lib/llmConfig.ts`, `D/components/SettingsPanel.tsx`) | provider, URL, whether it is configured; the panel; keys in the keychain | start, choose, edit, save, clear, test, set up Free AI | answers for a provider that is not chosen any more; effects of one rendering | the panel says what the keychain holds; a provider is asked at its own URL |
| Agent workflow (`packages/shared/src/agent`, `D/components/AgentWorkflow.tsx`) | phases and their outputs, a session of iterations | step, run in full, reset, iterate | steps, full runs and resets in any mixture | phases in order, sessions that end |
| Models' requests, retention, readiness, metrics, diagnostics, tray, file workspace | none that others depend on | | | not modelled, section 15 |

How they interact. An HTTP handler or a run engine *dispatches* a command: it is added to the stream
of the device, or sent directly when Redis refuses. The gateway loop of the device's socket sends one
command at a time and waits for `device.command.ack`. The desktop handles the command (for `run.start`
it also sends `device.run.accept`; for `approval.request` the user's decision follows as
`device.approval.decision`; control actions and tool calls become approval items) and acknowledges it.
Handlers of those messages change the stores and reach the run engine through `activeEngines`. Everything is
saved to Postgres by calls nobody waits for, and broadcast to the browser's stream of events.

`PROJECT.json` lists the hazards at their lines; most properties below were written for one of them.

## 2. Plan and modules

| Module | Models | Checked in | Proved |
|---|---|---|---|
| `DeviceCommandQueue`, abstract `CommandDelivery` | the queue, its gateway and the desktop's client | `queue_answers`, `queue_reconnect`, `queue_drains` | `DeviceCommandQueueProofs` |
| `RunLifecycle` | a run between API, engine and desktop | `run_lifecycle`, `run_final` | `RunLifecycleProofs` |
| `Approvals`, `ControlActions` (which uses it) | the desktop's approval items; remote actions and tool calls through API, socket and desktop | `control` | `ControlActionsProofs` |
| `AssistantLoop` (which uses `Approvals`) | the built-in assistant engine | `desktop` | `DesktopProofs` |
| `AgentTask` | the Rust agent and the window's reading of its events | `desktop`, `agent_events` | `DesktopProofs` |
| `ChatTasks` | the chat, tasks to confirm, Free AI set-up | `desktop` | `DesktopProofs` |
| `Overlay` | the overlay window | `desktop` | `DesktopProofs` |
| `Updates` | releases, feed, updater | `desktop` | `DesktopProofs` (types) |
| `BrowserSessions` | sessions and cookies of a user's tabs | `records`, `session_logout` | `AccountProofs` |
| `DeviceAccess` | sign-in, tokens, pairing, ownership | `records` | `RecordsProofs` |
| `Billing` | checkout and webhook | `records` | `AccountProofs` |
| `LocalAi` | the local model runtime | `records` | `RecordsProofs` |
| `ScreenPresence` | presence and preview | `presence` | `PresenceProofs` |
| `Dashboard` | the dashboard page | `presence` | `PresenceProofs` (types) |
| `RunView` | what the desktop shows of its runs, and how it answers them | `support` | `SupportProofs` |
| `RunRecord` | what memory and rows keep of one run of the assistant | `support` | `SupportProofs` |
| `RateLimit` | the requests of one key | `support` | `SupportProofs` |
| `RedisClient` | the call of one command | `support` | `SupportProofs` |
| `ProviderSettings` | the choice of the model provider and its key | `support` | `SupportProofs` |
| `AgentWorkflow` | the workflow of five phases, its panel and its sessions | `support` | `SupportProofs` |

`MCRecords`, `MCDesktop`, `MCPresence` and `MCSupport` check components that share no state *side by side*: a variable
`focus` is chosen in the initial state and names the component that moves; the others keep their initial
state. The state space is the sum of those of the components, not their product, and a property of one component is
checked on all of its behaviours. Two components are followed twice, once for each of two questions that do not meet: `Dashboard` for devices and
for runs, `RunView` while runs are canceled and while the list is loaded. `MCDeviceCommandQueue`, `MCRunLifecycle` and `MCControlActions` instantiate one component each.

What is left for later: a composition of `RunLifecycle` with the queue (a `device.run.accept` that is lost is not sent
again, while `RunView` takes the socket as up), and several API nodes on one stream.

## 3. DeviceCommandQueue

One device. Every chain of awaits of the API is a *task* with a program counter: the gateway loop of a
socket, the enqueue of a command, a handler of an acknowledgement. A step of a task is one Redis round
trip, or the synchronous code between two awaits.

| Model | Code |
|---|---|
| `streamId`, `stream`, `pel`, `lastDelivered` | the stream, its consumer group and the group's pending entries |
| `entry`, `ackKey`, `retry` | entry key, terminal acknowledgement key, retry key |
| `gateway`, `inFlight`, `sock` | `deviceGatewayLoops`, `deviceInFlightCommands`, `socketToDevice` |
| `handledAcks` | `handledCommandAcks` of `WsClient` |
| `EnqueueXadd`, `EnqueueSetEntry`, `SendDirect` | `enqueueDeviceCommand`, `dispatchDeviceCommand` |
| `Scan`, `Xack`, `Xdel` | `cleanupExpiredDeviceCommands`, `deleteStreamEntry`, called by every task |
| `LoopTop`, `LoopTimeout`, `LoopReadPending`, `LoopReadNew`, `LoopSend`, `LoopSendFailed` | `startDeviceGatewayLoop`, `nextReadableCommands` |
| `AckReceive`, `AckLookup`, `AckRetry`, `AckSetTerminal` | the `device.command.ack` handler, `ackDeviceCommand`; `Xdel` ends with `applyTerminalDeviceCommandOutcome` |
| `Connect`, `Hello`, `HelloDone`, `ClientDrop`, `SocketClosed` | `WsClient.connect`, the `device.hello` handler before and after its awaits, the two ends of a lost connection |
| `DeviceHandle`, `DeviceRepeat`, `DeviceRestart` | `handleServerCommand` of a new and of a remembered command; a restart of the application |
| `Expire`, `EntryKeyExpires`, `BackoffElapses` | deadlines |

Failures: each round trip may fail silently (`Fails`), as `redis.ts` turns every error into null; XADD,
XREADGROUP and the deletes may also take effect and lose their reply. The API may restart
(`ApiRestart`), the desktop too, connections break at any time and either end notices on its own.

Abstractions. Payloads and audit events are left out. A deadline passes whenever its action fires. The
number of attempts is left out: it only sets the length of the backoff. CLEANUP_BATCH_SIZE is 1, so that
cleanup re-reads the stream more often than the code does. Entries that cannot be parsed, and several API
nodes on one stream, are not modelled. Reading an entry and its retry key is one step: the key can only be
read too early, and too early means that the command is sent now or after the next read.

`CommandDelivery` is the promise: a queued command leaves the queue only when the device has given a
terminal answer or the command has expired, and the record of its end is true. `DeliverySpec` is its
specification under the mapping of `queued` to the stream and of `record` to the terminal key.

### Runs

| Run | Bounds | Shows |
|---|---|---|
| `queue_answers` | one command that may expire and be refused for the moment, two handlers, one socket, one failing call | `AtMostOncePerSession`: one run of the desktop application handles a command once, however often it is redelivered; `NothingStuck`: as long as no call fails, a queued command can be acknowledged, and an entry that is pending but no longer in the stream is about to be acknowledged, although cleanup, answers and the loop delete and read at the same time; `DeliverySpec`, and with it that the record of an end is true (`RecordsTellTheTruth`, which is proved and in no run) |
| `queue_reconnect` | one command, two sockets, one failing call, one API restart | `NoSilentDrop`: a queued command stays in the stream until it is answered for good or has expired |
| `queue_drains` | two commands, one socket, fair | `ServedQueueDrains`: to a desktop that stays connected both commands are delivered and leave the queue |

Why the bounds are enough to be interesting. Commands meet in the order of the stream only: one
shows every race over its own entry, and two, in `queue_drains`, that one is served behind another. Two handlers are needed for two
answers to one command to overlap. Two sockets are the old and the new connection of a reconnect. One fault
or crash at every possible point is what a partial failure is; a desktop restart is not bounded, it uses up
a socket. `MaxHandled` is as large as the number of answers, so that the eviction of remembered answers
beyond 200 does not happen; beyond it the code does handle a command again.

Fairness (`Fairness`). Node runs every callback that is ready and every timer that is due; Redis calls come
back, with an answer or an error (a timeout in `redis.ts`); the desktop reads its socket. Nothing is assumed
of connecting, of users, or of expiry. Liveness properties are stated for a desktop that stays connected on a
socket whose loop is the current one (`Served`), since anything else can be prevented by a bad network.

## 4. RunLifecycle

One run, from `POST /runs` to its last status. `status`, `approval` and `active` are the fields of its
record and of `activeEngines`. `engine` maps every engine ever created to the await it is at (`pc`), its step and
its `stopped` flag; engines that were stopped go on until they look at the flag, as in the code. `saves` are
snapshots of the status on their way to Postgres, `db` the row; saves are not awaited, so they may land in any order.
`toApi` holds the desktop's messages: each handler awaits Redis (`touchPresence`) before it looks at the run, so they
are handled in any order, or never.

| Model | Code |
|---|---|
| `CreateRun`, `DispatchRunStart` | `POST /runs`, `createRunForOwnedDevice` |
| `CancelByUser`, `SaveCanceled`; `CancelByDevice` | `POST /runs/:runId/cancel`; `device.run.cancel`; both `runStore.cancel` |
| `AcceptManual`, `AcceptIgnored`, `AcceptAiAssist` | `device.run.accept` |
| `ApprovalDecision`, `ApprovalRejected`, `RunStartRejected`, `RunUpdate` | `device.approval.decision`, terminal nacks of `approval.request` and `run.start`, `device.run.update` |
| `EngineBegin` ... `EngineTimeout` | the coroutine of `runEngine.ts`, cut at its awaits |
| `SaveCommits`, `ApiRestart` | `runsRepo.save`; loading of the rows and `recoverInProgressRunsOnStartup` |
| `DesktopStart` ... `DesktopFinish` | `App.tsx`, `wsClient.ts`, `aiAssist.ts` as far as they speak to the API |

Left out: statuses and logs of single steps, messages, server-sent events, `cleanupOldRuns`. The two or three delays
in a step are one (`EngineWork`): between them only logs are written. How commands reach the desktop is the
other module's business: here a dispatched command may be handled at any later time, and twice by a restarted desktop.

### Runs

| Run | Shows |
|---|---|
| `run_lifecycle` | both modes, two engines, two accepts, decisions and cancels, a restart. `RegistryConsistent`: cancel and decisions reach the engine that drives the run; `DoneWasGranted`: a manual run is done, in memory, in its row or on the way, only if completed with consent; `OutcomeStays`: done and failed are final for a manual run until a restart; `RunSettles`: an engine gives its run an outcome even if nobody answers |
| `run_final` | finding: a run canceled during the await of `run.details` becomes running again (`runEngine.ts:232`); the same property fails for an `ai_assist` run when an accept is handled after the cancel (`ws-handler.ts:872`) |

Two engines are the interesting number: one that was stopped and still runs, and one that a late accept could start
next to it. Fairness: timers fire and awaited calls return (`WF` of every engine's step); users, desktop and network
owe nothing. `RunSettles` ends with a restart, which leaves a manual run without an engine. Two more properties of the module are proved and in no
run: `ConsentBeforeResult`, that the step after the approval is executed only with the user's consent to that engine, and `StoppedEngineStops`.

## 5. ControlActions and Approvals

A browser asks for an action (`Web`), the desktop's assistant makes one of its own (`Own`), or it asks for a tool
(`Tools`). Each has a record in the API's store, a row, and, on the desktop, an approval (`Approvals`: pending,
approved, executing and the ends). A report of the desktop first waits for the rate limit (`inbox`) before its handler looks at the
store, so a later report can overtake an earlier one, and a report over the limit is dropped (`RateLimited`).
`Dispatch` queues the command; or Redis gives no stream id, whether it executed XADD or not (`stray`), and the command goes over the socket (`direct`); or there
is no socket, and the handler records a failure. A stray command has no entry key, so that its answers are ignored.

| Property | Says |
|---|---|
| `RecordTellsTheTruth` | an action of the browser on record as executed was executed, one on record as failed or denied was not, in whatever order acks, results, rejections and the POST handler meet. Excused are a restart of the desktop, which forgets what it handled, and an action answered 503 although its command is in the stream (`Misjudged`, section 13) |
| `RunsOnce` | a redelivered command is not executed again; a restart of the desktop lets at most one more execution through |
| `RowFollows` | once the saves have landed the row is the record, unless two saves of the action, or two reports, overlapped |
| `EveryActionSettles` | every action gets an outcome on record, because approvals expire and ends are reported; excused are a lost report, a restart, and overtaking reports of the assistant's own actions |

Bounds of `control`: one action per behaviour, of any of the three kinds, and one fault (a disconnect, a restart of either side, a
dropped report, an offline device). Records of different actions share nothing, and the races are between the steps of one action:
it has up to three reports, two handlers and three saves. Fairness (`MCControlActions`): the API handles what
it was sent, and the desktop handles commands, finishes executions, expires approvals and reconnects. Users owe nothing.

## 6. BrowserSessions

The tabs of one browser share cookies and a stored token. A request is refused, refreshed and sent again once (`apiFetch`). A refresh
is two steps in the API, the look-up with its checks and the rotation, as an await stands between them; an answer may be lost.

`CookieIsLive`: a browser at rest that has a refresh cookie has the current token of one of its rows, unless two refreshes
overlapped or an answer was lost. `RevokedStaysRevoked`: a revoked row becomes live again only through a refresh that had read it
before. `session_logout` drops that exception, and fails. **Finding**: `rotate` writes
`revokedAt: null` (`A/repos/sessions.ts:94`), so a logout served between look-up and rotation is undone. Two tabs and three requests
are every overlapping pair and a third request that uses what the pair left. Registration and CSRF tokens are left out.

## 7. DeviceAccess

One device, its desktop, two users: sign-in (attempt, handoff, exchange), hello, pairing code, claim, mail of the new token, sign-out,
revocation from another desktop. The row, the API's memory and the desktop's keychain are written by separate steps (`work` holds
the handlers between two awaits).

`OneOwner`: the row's owner is the user its token was issued to, and with no handler under way the owner in memory, who is sent the device's
events, is the row's or null. `KeychainIsCurrent`: a signed-in desktop at rest holds the last token issued for its device, so
that its next hello is refused only after a revocation or an expiry. Both say nothing once a claim was overlapped by another
claim, a hello or a revocation: the code then promises nothing, and may end with row and memory apart. The constraint `NoOverlap` of `records`
stops the search there.

## 8. Billing

A checkout makes a Stripe customer for a user and stores it; the webhook makes a row for an event and then writes the
user's row. Every await is a step, handlers run at once, the API restarts, a write fails, and Stripe delivers an event until
it gets an answer, in any order. `HookCreateFails` is the row that cannot be made for any other reason than its unique id: the handler answers as for a duplicate. `EventAppliedExactlyOnce`: an event is written at most once, and one that Stripe will not deliver again was written,
is being written by another handler, or is `spoiled`: its row could not be made, or its first processing was cut off and its row makes the retry a duplicate.
Both are what the code does (section 13). `SettledRowIsStripes`: when everything is delivered in order, nothing is spoiled, and the user has
one customer, the row says what Stripe says. Two handlers can process one event at once; three events
are a payment and a later change of the subscription. The two checkouts, and the two handlers, are alike (symmetry).

## 9. LocalAi

`local_ai.rs` holds no lock over a whole command: install worker, start and stop interleave between the locks of single fields, while
the child, the port and the files change by themselves. `NoOrphan`: a running child is the one that stop can reach, unless two
calls started the service at once or the application was restarted. `StageIsHonest`: the progress the window polls says planned,
installing or starting only while somebody works on it, unless a restart in compatibility mode failed; it is proved and in no run, as is `RecordsTypeOK`, which collects the types of the four
components of `records`, with the facts among them that are more than types: a user row names a Stripe customer made for that user,
only a process that runs serves the port, and what the metadata file records was installed with a whole binary.

## 10. ScreenPresence and Dashboard

`ScreenPresence`: a desktop with up to two sockets, the messages on them, handlers that have awaited and go on, presence keys that expire,
the preview and its frames, and a restart of the API. A hello is four steps: `Receive`, `Authenticate`, which marks the socket, `Register`, which writes the row, and `SetPresence`,
with which it is acknowledged; it may be refused or fail at each. Any other message before the mark is refused. A stream state is taken by the memory (`StreamState`), then by the row (`StreamRow`),
which may fail. `FrameOnlyWhileOn`: a frame can be fetched only while the preview is on. `ServerFollowsDesktop`:
when everything is handled the API believes of the preview what the desktop does, unless a stream state `slipped`: it was not sent, lost, refused before the hello
was through, overtaken, or not written. `OnlineIsShown`: a device whose hello was acknowledged is shown as
connected. `GoneIsShownGone`: one that stays away is shown so in the end. At most two messages are handled at once (`MaxHandlers`): enough for one to overtake another.

`Dashboard`: the page loads lists, polls devices, hears events, and when the stream breaks checks the session and
opens another. A request is served, lost, or refused: once the stored token has run out (`TokenExpires`) the refresh gives a new cookie, but the second try has the old
token again (`DeniedAgain`); or the refresh is refused too, and the browser goes to `/login` (`SessionOver`). `DevicesCatchUp`: the page never shows a stale list of desktops for good, as long as its stored token
is valid. `LiveAgain`: a page that lost its stream gets one again,
unless the user left or a stream never opened. Fairness: requests are answered in one of these ways (`Answer`), streams
open, timers fire, polls are made. The page is followed twice (`MCPresence`), for
devices and for runs, because the two lists do not affect each other.

## 11. The desktop: AssistantLoop, AgentTask, ChatTasks, Overlay, Updates

`AssistantLoop`: the engines of `aiAssist.ts`, cut at their awaits, and the approvals of `App.tsx`. Every run that is started makes an engine; `assistantEngineRef` holds one
(`engine`), and whatever the user does reaches that one. The others keep what they wait for.

| Model | Code |
|---|---|
| `Start`, `ProviderChecked`, `KeyChecked` | `startAssistantEngine` before and after its first await, and the engine's `start()` after its own |
| `Captured`, `Proposed`, `LoopFails` | `runLoop` after the screenshot and after the model |
| `AwaitApproval`, `Approve`, `Executed`, `Refuse` | the effect that makes an approval; `handleAiApproveAction` and `handleAiApproveTool` with `approveAction` and `approveTool`; denial and expiry |
| `Pause`, `Resume`, `PreviewOff`, `WorkspaceCleared`, `Respond` | the controls, and the effects that cancel approvals |
| `Stop`, `SignOut`, `RunCanceled` | `handleStopAi`, `handleDesktopSignOut`, `onRunCanceled` (which leaves the engine in the ref and its approvals pending) |

`ApprovedIsExecutedOnce`: what is executed is the proposal whose approval the user gave, and none twice, unless the engine was ever *mixed*: two of its loops, or a loop and a proposal, at once, or
in the ref while another engine had a loop or an approval left. `mixed` is a record of the past, not a guard: what happens then is in the model, and in section 13. `NothingAfterStop`: after Stop or a sign-out
none of the engines made before executes anything, although a loop that was waiting goes on to propose and an approval is made for it. `RunCanceled` promises no such thing, and a
start that still waits for the provider is not among them (section 13).

The model takes the ref and the state of `App.tsx` as equal: a render comes before the next callback. Both kinds of engines are behind one interface; this is the built-in one.

`AgentTask`: the task of `agent/mod.rs` and its one slot for an open question. `RunsWhatWasApproved`: what is executed was
approved, in its own step, before the task was cancelled. `CancelWhileWaitingEnds`: a task cancelled while it waits for the user ends. `agent_events` is a **finding**: events are
serialised with `event_type` and `task_id` (`T/agent/mod.rs:129`) and read as `eventType` and `taskId` (`D/lib/assistantEngine.ts:239`), so the window shows no proposal.

`ChatTasks`: turns with the model, known by their number, tasks to confirm and their dispatch, and the message that waits for Free AI.
`NoStaleQuestion`: a task to confirm never comes from a turn the user had given up. `SavedMessageResumes`: a
message saved for Free AI is replayed or given up once a model is ready, whatever the set-up shows.

`Overlay`: native calls under way as a queue, as the main thread runs them. `NoOverlayLeft`: once the assistant has stopped and the calls are over, the
window is framed, not on top, and the overlay is off, unless an exit failed. That it is also as it was before is `PriorStateRestored`, which does
not hold (section 13).

`Updates`: releases are published and get their assets, the API caches them, the updater checks in the background and by hand.
`EveryCheckEnds`: a check or download that is under way ends, and another can be started. `DesktopTypeOK`, proved and in no run, collects types, and that a question is open only
while its loop waits for it, that a loop that ended left a final status, and that the updater is busy exactly while it works.

Bounds of `desktop`: two starts, which is one engine that has lost the ref to another; two proposals, one for each or two of one; one pause, in a behaviour with one start (`PausesOrRuns`; the theorems have no
such bound): a pause and a resume make a second loop of one engine, a second start another engine, and each is followed on its own. Two tasks of one step, seven turns (send, give up, confirm, cancel, set up, replay, send), two native calls when another is made and one that fails, three releases. Fairness:
awaited calls return, effects run after a render, and an install ends; users owe nothing.

## 12. RunView, RunRecord, RateLimit, RedisClient, ProviderSettings, AgentWorkflow

The run `support` checks one property of each, the one that is hardest to see in its code; the others named here are proved for all
constants (section 14) and in no run. What does not hold is in section 13.

### RunView

`RunLifecycle` has one run in detail; here there are several, and of each engine only the turns that tell the desktop of a status. The queue is
off (memory backend) and the socket stays up: messages of one direction arrive in order.

| Model | Code |
|---|---|
| `Create`, `Accept`, `EngineBegin` ... `EngineDone`, `Cancel` | the handlers, `runEngine.ts` and `runStore` |
| `OnRunDetails`, `OnRunStatus`, `OnStepBlocked`, `OnApprovalRequest`, `OnRunCanceled` | the callbacks `App.tsx` gives to `WsClient`; `SetActiveRun` includes the effect that lists the active run |
| `StartLoad`, `DesktopMe`, `LoadAnswered` | the effect around `getDesktopTaskBootstrap`; `GET /desktop/me` |
| `SelectRecentRun`, `HandleApprovalDecision`, `HandleCancelRun` | the handlers of the same names |

`ApprovedIsMeant` (checked): no approval is settled by what the user decided on another, although the decision is sent under the *active* run. Proved besides:
`ShownWasTrue`, a run is never shown with a status it has not had, and `ViewTypeOK`, which includes that the list names a run once and keeps to its limit.
Two runs are one that is active and one that asks; the list holds one of them, so that the other is dropped from it. The runs are alike (symmetry).
The run follows the view with a cancellation and no load, and with a load and no cancellation: what a cancel changes is a status, and a
load brings any that is stored.

### RunRecord

One run of the assistant. A text has a form (raw, redacted, fixed, a name, a length, stars), its length and the blanks around it, the length it tells and, as history, the length of what it stands for.
`SanitizeProposal` does what the code does: a typed text becomes its length, tools lose their arguments but not the name of a command, questions and summaries become fixed texts, and
other actions stay, with the application they open. `SanitizeLogLine` trims an answer before it is measured.
`DeviceAgentProposal`, `DeviceRunLog`, `DeviceRunUpdate` and the steps of `device.action.create` (in memory, saved, counted) change the memory and append a
save (`SanitizeRun`); `SaveEnds` commits one, in any order, or loses it; `Restart` loads the rows and runs the recovery.

`CountIsOfRows` (checked): a run counts no action that has no row. Proved besides: `RowsAreRedacted`, neither a row nor a save holds what a user typed or answered, or a text the model wants typed, asks or sums up; `LengthIsKept`,
through every save, load and result the row of an action tells the length of what was typed, and the line of an answer, redacted three times, that of the answer without the blanks around it; `RecordTypeOK`.
Three events are two actions and a result or a restart; the lengths are one within the schema's limit and one beyond.

### RateLimit and RedisClient

`RateLimit` is one key in discrete time: W ticks are a window, `Second` ticks a second, since expirations are whole seconds. `Incr`, `Expire` and `Get` are the three awaits of
`consumeRateLimit`; each may be executed without its answer, `IncrLost` falls back to memory, and `Hang` never returns. `WindowLimit` (checked): Redis lets at most `Limit` requests
of one window through. Proved besides: `CountsAreKept`, the counter of a window holds every request of it as long as this or the next window needs it, and `MemoryLimit`, the process alone keeps to the
limit in any window that slides. Two windows, the first requests of both and one that overlaps them, take nine ticks and three requests of two callers. `Timeout < W`: 2.5 seconds against windows of 10 seconds and more.

`RedisClient` is `runRawCommand` with AUTH and SELECT before the command: three replies, cut into chunks anywhere, each accepted or refused, the last one ASCII or not. `ResolvedIsOwn` (checked): a promise is
resolved with the reply to its own command, and only when nothing was refused. `CallsEnd` states that a call ends unless Redis closes its connection, with the
socket's timer as the only fairness (`RedisFairness`); it holds for `RedisSpec` of the module itself and is in no run. The client serves each command on a socket of its own, so two show that calls share nothing.

### ProviderSettings

The commands on keys are synchronous on the native side: `keys` is a queue, executed and answered in order. Those on the local runtime (`slow`) are answered in any order.
`SetProvider` is `setLlmSettings` with the effects of the rendering that follows: persist, check the provider, read the runtime.

`SavedIsSaved` (checked): once the panel has its answers, "Saved" beside a provider means that its key is in the keychain, although `checkApiKey` does not ask which provider is chosen now: the last call of the queue is for
the chosen one. Proved besides: `UrlIsProviders`, a provider is never asked at the URL of another; `OneButton`, one button is under way at most; `SettingsTypeOK`.
Three changes are a start and two changes of the provider, or an opening and one; three calls are a check of the panel and one of the application around the one of a button. `MCSupport` starts
from the default choice and signed out when another component has the focus, where neither matters.

### AgentWorkflow

The functions of `workflow.ts` are operators over the state of the workflow; a click of the panel runs to its end, because nothing it awaits is unsettled. `PhasesInOrder` (checked): however steps, full runs and
resets are mixed, phases are completed in order, each with its own output. Proved besides: `RalphIsBounded`, a session that is asked before each iteration ends at its limit or after the iteration that passed;
`WorkflowTypeOK`. Six clicks are a full run by steps and a reset, or a repeated review.

## 13. Known divergences without a run

While modelling, these differences between the code and its documents came up. The models contain them; no run is given to them.

- A retryable nack is remembered by the desktop and repeated on redelivery (`D/lib/wsClient.ts:325`; `docs/deploying.md:165`: "stays queued and is retried with backoff").
- The late hello of a closed socket takes the gateway loop from the live one (`A/lib/ws-handler.ts:743`; `README.md:12`).
- A command whose entry key was not written cannot be acknowledged and blocks those behind it (`A/lib/device-commands.ts:374`; `README.md:214`).
- A decision handled before the engine waits is recorded and not heard; the run times out as denied (`A/engine/runEngine.ts:284`; `docs/protocol.md:820-822`).
- An installed model whose runtime is not running is not started by the set-up of Free AI, which then never ends (`D/App.tsx:1886`; `docs/plans/2026-03-22-*-design.md:84`); a retry of a failed set-up shows the old error until `install_start` answers.
- A runtime binary that was written in part is accepted for ever, because only its path is looked for (`T/local_ai.rs:1037`).
- An agent task that is canceled between two questions and then asks waits for ever (`docs/ADVANCED_AGENT.md:154`).
- A pause and resume within one await leaves two loops of the assistant, and one may execute another proposal than the one approved, or, as `resume()` restores `awaiting_approval`, one that was executed before (`D/lib/aiAssist.ts:459`; `README.md:375`).
- Starting a run while another engine waits for an approval leaves that approval pending, and the user who gives it makes the *new* engine execute its own proposal (`D/App.tsx:1462`, `D/App.tsx:2473`; `README.md:375`).
- A run that the server cancels stops its engine but leaves it in the ref, with its approval pending; a loop that was waiting proposes once more, and what the user then approves is executed in a stopped engine (`D/App.tsx:1125`, `D/lib/aiAssist.ts:469`).
- Stop during the first await of a start is lost, the engine is made afterwards; during the second, the engine starts its loop outside the ref, where nothing stops it (`D/App.tsx:1486`, `D/lib/aiAssist.ts:390`). A start that fails empties the ref of whichever engine is there (`D/App.tsx:1536`).
- An action whose XADD was executed but not answered, of a device without a socket, is answered 503 and recorded as failed; its command is delivered when the device is back, and may be executed (`A/lib/device-commands.ts:357`, `A/index.ts:1991`).
- An event of Stripe whose row cannot be made, for whatever reason, is answered as a duplicate: Stripe forgets it and it is never applied (`A/index.ts:1716`). One whose first processing fails is a duplicate when it comes again.
- A stream state that is sent while the hello waits for the look-up of its token is refused, and the desktop does not look at the answer; if the row of one cannot be written the memory says otherwise. In both cases API and desktop disagree until the next switch (`A/lib/ws-handler.ts:598`, `A/lib/ws-handler.ts:959`).
- When the stored access token has run out, `apiFetch` refreshes the cookie, but its second try has the stored token again, which the API prefers: every poll is refused in silence (`W/lib/auth.ts:217`, `A/lib/auth.ts:172`, `W/app/dashboard/legacy/page.tsx:549`), and the page opened anew goes to `/login`, although the cookie is good.
- A sign-out with a token that was revoked meanwhile does not get through (`docs/desktop-signin-flow.md:36`).
- The dashboard is not told of cancels, nor of ends that the desktop reports (`README.md:109`, `README.md:487`), and a reconnection check that overlaps another opens a second stream of which only the first is closed.
- The background check for updates rarely runs: renders restart its effect (`D/App.tsx:983`).
- An overlay exit that fails, followed by a new entry, keeps the overlay as the window to restore (`T/lib.rs:1105`).
- The assistant's Stop reports the run that is active, which the user may have changed meanwhile (`D/App.tsx:2562`).

Eleven more are stated by a property of a module. It is in no run, because it does not hold; with it in the configuration TLC shows the behaviour.

| Property | What the code does |
|---|---|
| `RunView.DecisionIsTaken` | the decision is sent under the active run, not under the one whose dialog is open, so it is dropped and the run waits (`D/App.tsx:2369`) |
| `RunView.HistoryStays` | a list of runs that was read early replaces what arrived since (`D/App.tsx:1239`); shown with room for both runs, `HistoryLimit = 2` |
| `RunRecord.RecoveredStaysEnded` | the recovery marks what it reads from the rows, not what the store holds, and the next save of the store writes over it (`A/index.ts:816`) |
| `RunRecord.ProposalLengthIsKept` | a proposal that was loaded is redacted again and then tells the length of its redaction (`packages/shared/src/index.ts:558`) |
| `RedisClient.UnavailableIsHeard` | (`RedisSpec` of the module itself) a connection that is closed in order settles nothing, as there is no listener for its end (`A/lib/redis.ts:219`) |
| `RedisClient.ReplyIsTaken` | the length of a bulk string, in bytes, is applied to a JavaScript string (`A/lib/redis.ts:140`) |
| `ProviderSettings.ChoiceIsKept` | the settings are persisted before they are loaded, so the choice is lost at every start (`D/App.tsx:732`) |
| `ProviderSettings.ConfiguredIsCurrent` | a saved or cleared key does not change `providerConfigured` (`D/App.tsx:507`) |
| `ProviderSettings.ClearedIsGone` | a key the keychain refuses to delete is shown as cleared (`D/components/SettingsPanel.tsx:222`) |
| `AgentWorkflow.GateMetInRalphMode` | the mode that should iterate until the gate is met executes a phase once (`packages/shared/src/agent/workflow.ts:489`) |
| `Overlay.PriorStateRestored` | Stop leaves overlay mode twice, and the second exit, without a snapshot, takes a window out of full screen that was in it before |

## 14. Proofs

The theorems hold for every value of the constants. They use the assumptions on constants of their modules and nothing
else; TLC evaluates these assumptions in every run. Each argument has the same shape: an invariant that is
inductive, one lemma per action or group of actions, a theorem that combines them, and the properties as corollaries.

| Module | Theorems | Assumptions |
|---|---|---|
| `DeviceCommandQueueProofs` | `QueueInvariance`, `QueueTypes`; `NothingDropped` (`NoSilentDrop`), `RecordsAreTrue` (`RecordsTellTheTruth`), `QueueDelivers` (`DeliverySpec`); `FlowInvariance`, `QueueFlows` (`NothingStuck`); `HandledOnce` (`AtMostOncePerSession`) | `BoundsAssumption`, `DistinctAssumption`: verdicts are the three there are, bounds are numbers, sockets, handlers and commands are different things. `HandledOnce` also: there are at most `MaxHandled` commands |
| `RunLifecycleProofs` | `Invariance`, `Typing`; `Registry` (`RegistryConsistent`), `Consent` (`ConsentBeforeResult`), `StoppedEnginesStop` (`StoppedEngineStops`); `OutcomeInvariance`, `DoneGranted` (`DoneWasGranted`), `OutcomeFinal` (`OutcomeStays`) | `ModeAssumption`, `RecoveredAssumption`, `NumbersAssumption` |
| `ControlActionsProofs` | `OnceInvariance`, `CommandsRunOnce` (`RunsOnce`); `TruthInvariance`, `RecordsAreTrue` (`RecordTellsTheTruth`); `RowsFollow` (`RowFollows`) | `ActionsAssumption`: actions of the browser are no actions of the assistant, and finitely many |
| `AccountProofs` | `SessionInvariance`, `SessionTypes`; `RevokedForGood` (`RevokedStaysRevoked`); `CookieInvariance`, `CookieStaysLive` (`CookieIsLive`); `BillingInvariance`, `BillingTypes`; `AppliedExactlyOnce` (`EventAppliedExactlyOnce`); `RowIsStripes` (`SettledRowIsStripes`) | `SessionBoundsAssumption`: the bound is a number |
| `RecordsProofs` | `AccessInvariance`, `DeviceHasOneOwner` (`OneOwner`), `KeychainFollowsRow` (`KeychainIsCurrent`); `LocalInvariance`, `NoChildIsLost` (`NoOrphan`), `ProgressIsHonest` (`StageIsHonest`); `RecordsTypes` (`RecordsTypeOK`), `RecordsAreEachStores` | `AccessBoundsAssumption`, `LocalBoundsAssumption`: bounds are numbers, the calls of the local runtime are finitely many |
| `DesktopProofs` | `AssistantInvariance`, `ExecutesTheApproved` (`ApprovedIsExecutedOnce`), `StopIsLast` (`NothingAfterStop`); `OverlayInvariance`, `NothingStaysOver` (`NoOverlayLeft`); `TurnInvariance`, `QuestionIsCurrent` (`NoStaleQuestion`); `AgentInvariance`, `OnlyApprovedRuns` (`RunsWhatWasApproved`); `DesktopInvariance`, `DesktopTypes` (`DesktopTypeOK`), `DesktopIsEachComponents` | `AssistantBoundsAssumption`, `TurnsAssumption`, `AgentBoundsAssumption`, `ReleasesAssumption`: bounds are numbers, there is a first release |
| `PresenceProofs` | `PresenceInvariance`, `FramesWhileOn` (`FrameOnlyWhileOn`), `StreamStateArrives` (`ServerFollowsDesktop`), `ConnectedIsShown` (`OnlineIsShown`); `DashTypes` (`DashTypeOK`); `WatchShowsBoth` | `PresenceBoundsAssumption`, `DashBoundsAssumption`: bounds are numbers |
| `SupportProofs` | `LimitInvariance`, `WindowsAreLimited` (`WindowLimit`), `MemoryIsLimited` (`MemoryLimit`), `CountsKept` (`CountsAreKept`), `LimitTypes` (`LimitTypeOK`); `RedisInvariance`, `AnswersAreOwn` (`ResolvedIsOwn`), `RedisTypes` (`RedisTypeOK`); `RecordInvariance`, `CountsHaveRows` (`CountIsOfRows`), `NoTextInRows` (`RowsAreRedacted`), `LengthsAreKept` (`LengthIsKept`), `RecordTypes` (`RecordTypeOK`); `ViewInvariance`, `DecisionsAreMeant` (`ApprovedIsMeant`), `WhatIsShownWas` (`ShownWasTrue`), `ViewTypes` (`ViewTypeOK`); `SettingsInvariance`, `SavedKeysAreThere` (`SavedIsSaved`), `UrlsAreProviders` (`UrlIsProviders`), `OneButtonAtATime` (`OneButton`), `SettingsTypes` (`SettingsTypeOK`); `WorkflowInvariance`, `PhasesAreInOrder` (`PhasesInOrder`), `RalphEnds` (`RalphIsBounded`), `WorkflowTypes` (`WorkflowTypeOK`); `SupportIsEachComponents` | `RateLimitAssumption`: a command is awaited for less than a window, and numbers; `RedisAssumption`, `RecordAssumption`, `NumbersAssumption`, `ProviderAssumption`, `WorkflowAssumption`: bounds are numbers, switches are truth values, groups are of roles, and "free" is no provider in the cloud |

**The queue.** Neither `NoSilentDrop` nor `RecordsTellTheTruth` is inductive: a deletion is three steps (acknowledge the entry, delete it, apply the
outcome), begun for a reason that was true when the task read it. `ReasonTrue` says that every task that deletes
still has its reason, a terminal answer of the desktop or an expiry; `MessagesTrue` that answers on their way, and those
the desktop remembers and repeats, were given; `QueuedOnce` that a command enters the stream once, so that "not in the stream any more"
is stable. Reasons never become false, as answers and expiries only accumulate. The refinement then has one case per action: the steps that delete an entry or write
the terminal key are the steps of `CommandDelivery`, and `ReasonTrue` is their guard; all others stutter.

`NothingStuck` is claimed while no call failed and the API did not restart (`Clean`). By `FlowInv`, a task that has acknowledged an entry and not
deleted it leaves nothing pending that another does not have in hand (`Removing`), an answer exists only for an entry the group was given
(`Reached`), and no command goes past the queue (`NoneDirect`); a socket has no loop before its hello is over (`Unstarted`), so that a new
loop cannot restart the task of an old one. `AtMostOncePerSession` holds as long as the desktop's memory of answers is not
exceeded: the code keeps 200 (`MaxHandled`) and drops the oldest, and the theorem states that hypothesis. Under it the memory
has exactly one answer for every command handled (`Remembered`).

**The run.** `RegistryConsistent` alone is not inductive: a second engine could be started while a stopped one still
runs, and the `deleteEngine` of the first, which looks at no engine, would remove the second from the registry. What
prevents it is that a stopped engine that is still running finds the run neither queued nor running (`StoppedIsOver`:
it was canceled, or later marked by someone else), so that no accept starts another, and hence at most one engine
runs (`OneLive`). `EngineInv` collects these facts. The finding `run_final` does not contradict them: there the engine sets the status to running in
the same step in which it ends. `StepShape` says where an engine can be in each step and what it has by then; the consent
of `ConsentBeforeResult` travels with it, from `waitForApproval` through the pause to step 4, and needs that an
engine that waits finds its own approval on record. Every action is shown to keep the invariant by one of three
lemmas: the engine ends (`EndKeeps`), moves (`MoveKeeps`), or is stopped (`CancelKeeps`).
For the outcomes, `OutcomeInv` adds: a finished manual run has no engine left (`Over`); the desktop accepts a run or
refuses it, never both (`Refused`), since a late nack of `run.start` would fail a run an engine drives; it reports a
status only in `ai_assist` mode (`LocalIsAi`); and the engine that completed the run has ended unstopped (`DoneEnded`).

**Control actions.** `Once` ties four things together: a payload is held only for a remembered command, and an action has been executed
once more than restarts excuse only if its command is remembered and its approval is at its end. The approval states
make the end final, and the memory of commands keeps redelivery from making a new approval.
`TruthInv` follows what is said of an action of the browser through every place where it can be (`Says`, `Told`): the report on its way, the record,
the save under way, the row. Each is true when it is written, and stays true because an action that succeeded did, and one whose approval is at
another end, or that was never sent, in the queue or over the socket, never will (`Yes`, `No`). What the POST handler says of a stray command is told for no other reason (`Misjudged`). A restart of the desktop forgets which commands were handled,
and the property, like the invariant, says nothing after one. `Rows` says that an action whose saves did not overlap has at most one under way, which
saves what its record is.

**Sessions.** `SessionInv` adds to the types that a refresh that found a row holds the number of a row that is there, as rows are
never removed. A revoked row is found by no later refresh, and only a refresh that found it writes it back.
For `CookieIsLive`, tokens are the numbers of the requests they were made for (`Numbered`), and the token of a login
is known to nobody before its answer is read (`Opening`). While no refreshes raced, the cookie names a row, or the row it named
was rotated by the one refresh that is still to be answered (`CookieInv`).

**Billing.** The row of an event decides who writes it: a handler in the midst of processing made the row (`WriterHasRow`), two never process the same event
(`OneWriter`), and an event without a row is one Stripe will still deliver, or is spoiled (`NewIsUnacked`). `RowIsWritten` then carries the acknowledgement: whoever
answers 200 for an event has written it or found its row.
`SettledRowIsStripes` follows from `SettledInv`: Stripe's subscriptions agree with the last event about their customer, and while
no event was written after a later one, the row of a user with one customer says what the latest event says that was written to it (`RowSays`). When all events are
written, that is the last. The premise is the code's: `processWebhook` compares no times.

**Chat.** A number names one turn: the last number is never a given-up one, and a turn that asked is not under way (`NumbersApart`).

**Agent.** An answer on the channel is for the question its loop waits for (`AnswersAwaited`), and a *yes* for the current step
(`YesIsForThisStep`), because a question is taken by one command only and its slot is emptied with it.

**Assistant.** Of an engine that was never mixed, `Alone` says: while it awaits an approval it has no loop under way, its proposal was not executed before, and the approvals that are pending for it
were made for that proposal. Every step but a proposal makes an engine at most *quieter* (`Quieter`): it drops a proposal, or waits for fewer things, and begins to await
nothing; so `Alone` is disturbed only by `Proposed`, where the proposal is new and the loop that made it is the one there was. Engines propose different numbers, hence an approval
names its engine. `ApprovedIsExecutedOnce` needs all of it, since an approval executes the *current* proposal of the engine in the *ref*, whichever was shown; for the engine in the ref, not to be mixed
says that every pending approval is its own. `NothingAfterStop` follows from the refs alone: an engine that was silenced is neither in the ref nor about to be put there (`RefsTyped`).

**Overlay.** The window's calls are answered in the order they were made. `LeftBefore(n)` says that once the calls before the *n*-th are over, no
overlay is left; it is shown for every call that enters, and for the end of the queue whenever the assistant is not running. It holds while no exit
failed.

**Ownership.** `overlap` marks that a hello, a revocation or a second claim was handled while a claim was. Until then a claim that wrote the row is alone
(`Owners`), so that the memory is behind the row only while its claim is about to write it; and until a token was lost the
keychain holds the row's token, or a newer one is in the mail (`Keys`).

**Local runtime.** Until two workers ran at once, the worker that fetches the binary is alone and metadata is written only when there is a
whole binary (`Disk`); until then, and while the application was not restarted, the slot holds the only child and a
call about to spawn has found none (`Service`). `CountInv` bounds the children by the calls, which the types need.

**Presence.** The newest stream state of the desktop is in transit, in a handler, or was taken by the memory and by the row (`Awaited`), and
wherever it is, it says what the streamer does (`Speaks`). `slipped` marks that one was overtaken, lost with its socket, refused, or not written; nothing is claimed then.
`OnlineIsShown` needs only that a hello is acknowledged after its row was written (`Greeting`).

**The page.** What is shown came from the API because the page asks for its first lists in turn and holds each until the last has come (`Held`).

**Limits.** Every request that was counted has a place in its bucket, the number INCR gave it, and no other request under way or let through has the
same (`PlacesApart`): a limit of places is a limit of requests. Places would be given twice if the counter were forgotten, so `CountsAreKept` must come with
`ExpiresLate`, that an expiration set after an await, in whole seconds, is not before the end of the next window, and that needs
`InTime`: a command is not awaited for longer than `Timeout`, so that INCR is executed while its bucket is the current or the next one's previous.
In memory, the requests let through within a window are all remembered (`Remembered`).

**The client of Redis.** Replies are parsed in the order in which they arrive, none twice (`InOrder`), and a promise is settled once (`SettledOnce`);
what was parsed without a rejection was accepted (`ParsedGood`).

**The stored run.** `CountIsOfRows` needs that neither the run in memory, nor its row, nor any save on its way counts more than the actions whose handler is
over and which have a row (`RunsTrue`); this only grows, since no step takes a row away. `RowsAreRedacted` is that all that is saved went through the
sanitizers (`SavedUpTo`), and `LengthIsKept` that a text, in whatever form, tells the length of what it stands for (`TrueAction`).

**The view.** A message, a list on its way and what is shown say what was so at some time (`been`), which stays true (`TruthStays`); a decision on its way was
meant by the user for the run that asked (`UpMeant`). For the length of the list, the times of updates tell the runs apart, wherever an old view of one still is
(`DatesApart`), as each is given out once: hence of the views listed no more than `HistoryLimit` have fewer than that many newer ones (`NewestAreFew`).

**The settings.** From the panel's last question about the key on, what the panel was or will be told is in the keychain, or was cleared by a later call (`Justified`): the panel may be
wrong while answers are due, and is right when they are in. It rests on the queue being executed in order (`InTurn`). `OneButton` is that the panel is loading exactly while one call of a
button is in a queue (`ButtonInv`).

**The workflow.** `Ordered` fixes the state by the number of completed phases: which one is current, the status and output of each, and what the panel shows;
each function of `workflow.ts` is shown to keep it.

**Side by side.** `RecordsAreEachStores`, `DesktopIsEachComponents`, `WatchShowsBoth` and `SupportIsEachComponents` show that a behaviour of the
composed specification is, component by component, one of the components: either the component has the focus and the step is its own, or its variables
stay. The theorems of the components therefore hold of the compositions the runs check.

The inductive invariants were checked with TLC on the instances of the runs before they were proved.

Every invariant and every action property that a passing run checks is proved, and so is every type invariant a module states. Only model-checked are the liveness properties, because
the prover decides neither fairness of actions (`ENABLED`) nor what follows from it: `ServedQueueDrains`, `RunSettles`, `EveryActionSettles`,
`GoneIsShownGone`, `DevicesCatchUp`, `LiveAgain`, `SavedMessageResumes`, `CancelWhileWaitingEnds`, `EveryCheckEnds`. The three findings are counterexamples of TLC.

## 15. Not modelled

| Part | Why |
|---|---|
| Requests to models, prompts (`T/llm`, `T/agent/providers`) | they build requests and parse answers; external in the modules that ask them |
| Retention, readiness, metrics, audit | periodic deletes of old rows, read-only probes, counters |
| Shared schemas (`packages/shared`) beyond the sanitizers and their limits | types and validators without state; the sets of messages and statuses in the modules are theirs |
| Diagnostics, tray, file workspace, autostart | views and file access, one value read or written per call; what others depend on is an input of their modules |

Left out of what is modelled: entries of the stream that cannot be parsed, several API nodes on one stream, queue
depth; `cleanupOldRuns`, statuses and logs of steps; the content of proposals, screenshots and messages; the CSRF token and
registration; device names; downloads and checksums of the local model beyond whole, partial or wrong; signatures of updates; the
dashboard's forms, and the newer app shell, which repeats a part of the page.

## 16. Running

    tlc -config queue_answers.cfg MCDeviceCommandQueue      (also queue_reconnect, queue_drains)
    tlc -config run_lifecycle.cfg MCRunLifecycle            (also run_final)
    tlc -config control.cfg MCControlActions
    tlc -config records.cfg MCRecords
    tlc -config presence.cfg MCPresence
    tlc -config desktop.cfg MCDesktop
    tlc -config support.cfg MCSupport
    tlc -config session_logout.cfg BrowserSessions          (likewise agent_events AgentTask)
    tlapm DeviceCommandQueueProofs.tla                      (likewise the other *Proofs modules)

`run_final`, `session_logout` and `agent_events` report a violation: they are the findings. The runs disable the
deadlock check: the environment acts a bounded number of times, after which the system rests. `SupportProofs` takes some seven minutes, the other proofs less.
Operators introduced by a comment "Mutant:" are plausible bugs of the definition that follows. They are used by no
specification; putting one in the place of its definition makes TLC report the property it is listed with in `PROJECT.json`.
