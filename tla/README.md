# FlowBots: a verification project

FlowBots runs bots ("agents") that work in threads, each with a computer, a home
directory and teammates. This directory holds TLA+ models of the parts where
several actors touch the same state, the TLC configurations that check them on
small instances, and theorems that TLAPS checks for every instance. Paths below
are relative to `src/`; `EX` is `packages/adapters/src/executor.ts`, `RT` is
`apps/api/src/router.ts`, `EV` is `packages/db/src/events.ts`, `RL` is
`packages/adapters/src/realtime.ts`, `SH` is `apps/web/src/pages/Shell.tsx`.
`PROJECT.json` maps every definition to its lines.

    tlc -workers 2 -config RunSafety.cfg MCRunRoutine
    tlc -workers 2 -config RunAnswer.cfg MCRunLifecycle          (also RunFence.cfg)
    tlc -workers 2 -config HomeSafety.cfg MCHomeStore            (also HomeCrossed.cfg, HomeImport.cfg)
    tlc -workers 2 -config ComputerSafety.cfg MCComputerLifecycle (also ComputerWork.cfg)
    tlc -workers 2 -config WorkSafety.cfg MCWork
    tlc -workers 2 -config ClientSafety.cfg MCClient             (also CronDay.cfg)
    tlc -workers 2 -config Liveness.cfg MCLiveness
    tlapm RunLifecycleProofs.tla       (and ThreadFollowProofs, HomeStoreProofs,
          ComputerLifecycleProofs, ModelCredentialsProofs, RoutineScheduleProofs,
          WorkProofs, ClientProofs)

## 1. Inventory

| Component | State | Operations | Talks to | Module |
|---|---|---|---|---|
| Thread handlers (`RT` 419-577) | none of its own; rows of message, task, run | send, stop, followUp, answer, subscribe, snapshot | database, event log, job queue | RunLifecycle, ThreadView |
| Run executor (`EX`) | per call: fence, leaseValid, assembled text; per process: nothing | continueRun, wakeRoutine, sleepComputer | all of the below | RunLifecycle and the modules of its parts |
| Run table (`packages/core/src/run-state.ts`) | run.status and its lease columns | canTransition, nextFence | executor, handlers | RunTable |
| Job queue (`packages/adapters/src/wakeup.ts`) | graphile-worker's table, or timers and a map in one process | enqueue by key, deliver, retry | worker host | RunLifecycle, RoutineSchedule |
| Reconciler (`packages/adapters/src/job-reconciler.ts`) | an advisory lock, two cursors | tick every 30 s: re-enqueue queued runs, lapsed leases, due routines | database, queue | RunLifecycle, RoutineSchedule |
| Event log and followers (`EV`) | event rows, thread.nextEventSeq; per follower a cursor and a latch | append, finalizeRun, follow | database, realtime | ThreadFollow, ThreadFeed |
| Realtime fanout (`RL`) | one listener connection, subscribers per topic, reconnect timer | publish, subscribe, connect, disconnect | PostgreSQL LISTEN/NOTIFY | ThreadFollow |
| Thread view of the clients (`SH`, `apps/mobile/app/thread.tsx`) | cursor, snapshot in view, requests under way, history pages | subscribe, reduce an event, refresh, load older | thread handlers | ThreadView |
| Turn of an agent (`packages/adapters/src/pi-runtime.ts`, `output-continuation.ts`) | a queue of events, the helpers of the turn, names of tools | push, read, continue a cut answer, run a helper | executor | AgentTurn, Subagents, ToolNames, Redaction |
| External effects (`EX` 1073-1119) | effect rows: intended, completed | recordEffect, completeEffect around a tool | connectors | AgentTurn |
| Peers, teams and child bots (`packages/adapters/src/peer-connector.ts`, `child-bots.ts`) | messages, runs and effects of other bots | message, delegate, react, spawn, delete | thread tables, queue | PeerWork |
| Routines (`EX` 146-201, `RT` 855-980) | routine.nextRunAt, a delayed job | create, update, remove, wake, defer, recover | queue, executor | RoutineSchedule, Cron |
| Model credentials (`packages/adapters/src/pi-oauth.ts`, `pi-credentials.ts`) | credential rows, a lock per process | resolve, refresh, store | provider | ModelCredentials |
| Model settings and sign-in (`RT` 187-319, 1429-1475) | credential rows with a default, sign-ins in memory | connect, sign in, poll, make default | provider, clients | ModelSetup |
| Computers (`RT` 578-780, `packages/adapters/src/computer-idle.ts`) | computer row: state, providerRef, controlHolder | boot, stop, takeover, release, idle sleep, ensureComputer | sandbox provider, home store | ComputerLifecycle |
| Choice of the host (`packages/adapters/src/host-aware-sandbox.ts`) | the owner's choice, a directory per machine | switch, provision, checkpoint | Docker, desktop | HostChoice |
| Home store (`packages/adapters/src/home.ts`) | a directory per bot with `.previous` and staging copies; a mutex per process | commit, recover, read | file system | HomeStore |
| Sandbox supervisor (`infra/sandboxes/supervisor/src/index.ts`) | containers, the image under build | provision, stop, delete, operate | Docker | Supervisor |
| Harness processes (`packages/adapters/src/cli-agent.ts`, `prime-agent.ts`) | a child process, its pipes, requests under way | run to the end, time out, abort; request, respond, close | the agent's program | HarnessProcess |
| Service windows (`packages/core/src/service-schedule.ts`) | none | active window, desired state | - | ServiceSchedule |
| Connected accounts (`packages/adapters/src/composio-connector.ts`, `apps/api/src/local-connectors.ts`) | key rows with secrets, a client and sessions in memory | save and clear a key, connect, complete, revoke | Composio | Connections |
| MCP tools (`packages/adapters/src/mcp-connector.ts`, `mcp-client.ts`) | rows of servers, a child per call | install, remove, discover, call | the servers | McpTools |
| Memory (`packages/memory/src`) | documents with revisions, an index directory with its manifest | commit, recall, rebuild | mnemosyne | MemoryIndex |
| Local runtime (`apps/local-runtime/src/index.ts`) | embedded database, what is open, secrets on disk | start, migrate, sign in, stop | desktop shell | LiteRuntime |
| Desktop shell (`apps/desktop/src`) | window, active runtime, trusted origins, terminals | choose, activate, probe, navigate, close | local runtime, server | DesktopShell |
| Web panels (`SH`, `CreativeRuntimeHost.tsx`) | bot shown, panel, requests under way | select, open, save, remove; save a look or steering | handlers | ShellView, BotStudio |
| Mobile client (`apps/mobile`) | server and session in the secure store | sign in, change server, boot, open | handlers | MobileApp |
| Schedule editor (`packages/core/src/cron.ts`) | none | preset to cron and back, next time | routines | Cron |

Left out, with the reason in `PROJECT.json`: artifacts (written once under a new
name), the harness registry and the other runtimes (a choice and requests
without state), the activity view and the service kernel (derived from state
modelled elsewhere), authentication, contracts and repositories (single queries
and schemas), the user interface and the site (rendering).

How they interact. A handler writes rows and enqueues a job; the queue hands the
job to one of several slots in several worker processes; the slot leases the run
row and checks that lease before each consequential write; everything visible is
appended to the thread's event log under the thread row's lock and announced by
NOTIFY; each API process has one listener connection that wakes the followers;
each client resumes its follower from its own cursor and builds its view from
snapshots and events. A turn reads the agent's queue, calls tools whose effects
are recorded first, wakes peers, and works on a computer whose home is imported
and checkpointed.

What is hard here, and what correctness means for it:

- *Two workers, one run.* Queue retries, the reconciler and lapsed leases all
  deliver a run again while a call may still work on it. One outcome is
  committed per prompt; a call that lost the lease changes nothing; a cancelled
  run stays cancelled.
- *Lost work.* Enqueue after commit can be lost, a process can die anywhere. A
  queued run is picked up, a leased run ends, a due routine is served.
- *Order of events.* Numbers are handed out before commit; a follower polls by
  number. No event is skipped.
- *Lost wake-ups and notifications.* A latch, a listener that reconnects, a
  timer. Every durable event arrives; a reader of a queue, a helper at a gate
  and a settled process are woken.
- *Stale views.* Snapshots are several queries, refreshes overlap, deltas are
  replayed, a user leaves a screen while its requests are under way. Nothing is
  lost from a thread, and an answer edits only what it belongs to.
- *Replacing a home.* Two renames that a crash can separate, readers that repair.
  The stored home is never lost, never an older one.
- *Races around the computer.* Long provider calls between a read and a write. No
  machine is used before it has the home, none in use is destroyed, nothing a
  completed run did is lost.
- *Things done twice.* Effects with an execution id, routine wake-ups with a
  scheduled time, tokens that may be refreshed once, sign-ins that are polled,
  migrations. Each happens once.
- *Limits.* Hops and sends of bots that put each other to work, helpers of a
  turn, a redactor's window, names cut to a length.

`PROJECT.json` lists each hazard with its line and the property that covers it,
or why none does.

## 2. How the project is built

Each component is a module with its variables, one action per handler, statement
or operation, a specification and its properties. Two of them implement an
abstract specification: `RunLifecycle` implements `RunTable`, `ThreadFollow`
implements `ThreadFeed`. Every database statement or transaction is one step, and
so is every await: what lies between two awaits of one call is one action.

Components that share state are in one module. Those that share none are
composed side by side: `MCRunRoutine`, `MCWork`, `MCClient` and `MCLiveness`
extend several components and add a variable `part` that names the one that
moves in a behaviour, while the others stay in their initial states. The state
space is the sum of the components' own, each is checked on an instance of its
own, and the theorems about the composition follow from one lemma (a step of the
composition is, for each component, one of its own or leaves it alone:
`PartsApart`, `ClientPartsApart`) and the components' invariants.

| Run | Module | What it asks |
|---|---|---|
| `run_safety` | MCRunRoutine | Runs: one outcome, leases, pauses, cancellation, the table is implemented. Routines: one run per scheduled time |
| `home_safety` | MCHomeStore | The stored home is not lost by one fault and never an older one |
| `computer_safety` | MCComputerLifecycle | No machine is used before it has the home, none in use is destroyed, the idle job's checkpoint has all the work |
| `work_safety` | MCWork | What a bot's turn works with: effects, answers, credentials, peers, helpers, tools, processes, containers, hosts, memory |
| `client_safety` | MCClient | What people work with: the thread view, schedules, model settings, desktop, screens, connected accounts |
| `liveness` | MCLiveness | What must happen: runs, events, turns, routines, CLI calls; and the safety and refinement of following a thread |
| `run_answer` | MCRunLifecycle | violated: "never leaves a terminal state except failed retry" (`run-state.test.ts`): answer reopens a cancelled run |
| `run_fence` | MCRunLifecycle | violated: "reclaims an expired running lease with a higher fence" (`executor-lifecycle.test.ts`): the fence was computed before the claim and can be equal |
| `home_crossed` | MCHomeStore | violated: "checkpoints are serialized per bot" (`docs/computer-runtime.md`): not between the API and a worker |
| `home_import` | MCHomeStore | violated: "New or replacement machines import the latest stored workspace before use": an export during another process's commit returns nothing |
| `computer_work` | MCComputerLifecycle | violated: "The portable bot workspace is the durable boundary" (`docs/computer-runtime.md`): a checkpoint of the wrong machine replaces the home |
| `cron_day` | MCClient | violated: a schedule shown as every Monday fires on another day |

Disagreements between code and documents that have no run of their own:

- `packages/adapters/src/peer-connector.ts:261` says "Peer send budget would be
  exceeded (4 sends maximum per run)", but one `delegate_team` call is no peer
  effect of line 22, so a run can wake more bots than four (PeerWork).
- A text in progress is shown doubled when the deltas of before a reconnect are
  replayed onto the snapshot that has them (`SH` 197, `apps/mobile/app/thread.tsx`
  97) (ThreadView).
- `README.md:128` says that the runtime can be changed at any time; while a page
  follows a thread, the Lite runtime's server does not close
  (`apps/desktop/src/runtime-session.ts:70`, `apps/local-runtime/src/index.ts:459`)
  (DesktopShell).
- `docs/self-host.md:157` says "Changing the server signs the device out of any
  previous session."; a sign-in that is answered after the change stores the old
  server's session (`apps/mobile/lib/api.ts` 48-57, 77-90) (MobileApp).

## 3. The life of a run: `RunLifecycle`, `RunTable`

### Correspondence

Each database statement or transaction of the code is one step. The variables
`status`, `owner`, `fence` and `expires` are the columns of the run row
(`expires` only as null, future or past); `pending` counts the queue's
run.continue jobs of the run; `api` is what a handler that touched the run has
left to do. A slot `t` is one concurrent call of `continueRun`: `pc`, `work`,
`token` (its `fence`), `valid` (its `leaseValid`) and `aim`, the status it is
about to write. Slots with the same `OwnerOf` share a worker process.
`announced`, `settled` and `answers` are history variables.

| Action | Code |
|---|---|
| CreateRun, SupersedeQueued, EnqueueRun | send (`RT` 435-492); followUp, routines, peers and child bots create the same row without superseding |
| Stop, Answer, ReleaseTakeover | `RT` 493, 564, 655 |
| Reconcile | `adapters/src/job-reconciler.ts` 104-185, one run of a batch |
| Dispatch | the queue delivers; `EX` 203-209 |
| Claim, Start | `EX` 210-230, 232-245 |
| SetUp, Heartbeat, NoticeLoss | `EX` 246-657, 250-259, 694-711 |
| Ask, Announce, Pause | `EX` 738-807 for ask and takeover |
| Finish, Finalize | `EX` 808-947, `EV` 65-151 |
| Throw, Release, Abandon | the catches, `EX` 948-1001, and statements outside them |
| Crash, ApiCrash, LeaseLapses | environment |

The attempt row is left out: only its slot writes it, together with the run, and
nothing reads it back. Model, tools and computer are left out: a turn asks,
ends, throws or notices a loss at any time.

`RunTable` is the abstract specification: a status per run moved along
`run-state.ts`'s table, outcomes counted, stop cancelling everything active,
plus the two moves the code makes outside the table (an answered run reopens, a
failed call gives its run back).

### Runs

| Run | Instance | Question |
|---|---|---|
| `run_safety`, part run | 1 run, 2 slots in 2 processes, 1 fault, 1 answer or release | Types; a lease always has an expiry; one outcome per prompt; a waiting run was announced under the lease that paused it; a running run leaves by its holder, a reclaim, stop or answer; a lost lease stays lost; RunTable is implemented; nothing happens to a cancelled run |
| `liveness`, part run | 1 run, 1 fault, fair | A queued run is picked up though its enqueue is lost; a leased run ends though its worker dies |
| `run_answer` | violated | "never leaves a terminal state except failed retry" (`run-state.test.ts`): answer reopens a cancelled run |
| `run_fence` | violated, 2 slots of one process | "reclaims an expired running lease with a higher fence" (`executor-lifecycle.test.ts`): the fence was computed before the claim and can be equal |

Bounds. Two slots are enough for one to lose the run to another; a third could
only lose it again. `MaxFaults` (thrown error, crash, or a lease lapsing under a
live slot) of one already separates every await from its successor; `MaxResumes`
of one reopens or resumes a run once. The queue's jobs are bounded by these two.
The safety theorems below do not depend on any bound. Deadlock is not checked:
a finished run with no job left really is the end.

Fairness. `Reconcile` is weakly fair (the worker ticks every 30 s and looks at
every recoverable run: its batch cursor wraps); `LeaseLapses` is weakly fair
(time passes; while a live slot renews, the lapse is a bounded fault);
`Dispatch` is strongly fair per run (graphile-worker serves jobs in order, but a
slot may be busy with another run over and over); a slot's `Step` is weakly fair
(awaits return). Users, handlers, faults and the heartbeat are not fair, so
neither liveness property relies on a user, on the lost enqueue, or on a
renewal.

### Proofs (`RunLifecycleProofs`)

The inductive invariant is `TypeInv`: row columns typed, slot variables typed, a
busy slot has a run (`BusySlotsWork`), and a slot that is about to write a
status has one fit for that place (`AimsFit`), without which a `Pause` could be
thought to write "completed". One lemma per group of actions shows it is kept
(`RowsStayTyped`, `SlotsStayTyped`).

`StepImplements` maps every step to a step of `RunTable` or a stutter; its only
facts are `TypeInv` and `HoldsRunning` (a slot that passes the lease check found
the run running). `Implements` follows, and `StopFinal` and `OneOutcome` are
proved on the steps of the table alone. `LostStaysLost` rests on `TokensKept`
and on who writes leases (`Writers`); it assumes nothing of the fence, only
`Alone(t)`, that no other slot has this workerId. `RunningLeft` and
`Reclaimable` look at the writers of a row. `PausesAnnounced` needs the
strengthening `PauseBacked`: a run that waits, and a slot at its pause that
still holds the lease, have announced; it assumes `Alone` for all slots, and
`run_fence` shows why: two slots of one process can hold the same lease.

Only model-checked: the two liveness properties (fairness is beyond the prover
here) and the violations.

## 4. Following a thread: `ThreadFollow`, `ThreadFeed`

### Correspondence

An event is its number and whether it lasts (progress events are deleted, all
others stay). A writer holds the thread row from `Begin` (the increment of
`nextEventSeq`) to `Commit` or `Rollback`, then publishes. `link` is the
listener connection of the API process, `wire` the notifications under way,
`heard` whether the follower subscribed, and `changed` whether the latch's
generation differs from the one the follower observed: the generation itself is
used for nothing else. `place`, `reach`, `batch` and `more` are the local state
of `followThreadEvents`; `stream` is what it yielded and the client has not
received; `cursor` is the client's. `got` and `silent` (events whose publish
failed) are history variables.

| Action | Code |
|---|---|
| Begin, Commit, Rollback | `EV` 52-63, 65-146, 153-170 |
| Publish, PublishFails | `EV` 172-178, `RL` 65-71 |
| ClearProgress | `EX` 1046-1048, `RT` 509 |
| Connect, Listen, Connected, Disconnect, HandleNotification | `RL` 73-195 |
| Follow, Look, Fetch, Yield, EndOfBatch, Wake, CatchUp | `EV` 180-221, 256-283 |
| Receive, Break, Load | `apps/web/src/pages/Shell.tsx` 155-205, `RT` 1294 |

`ThreadFeed` says what following promises: numbers of durable events increase,
also past what the reader has, and a reader that moves forward was given every
durable event it passed.

Left out: the reconnect delay, `close`, other threads' topics, and what a
snapshot contains (`Load` takes page and cursor as one; the real ones are
several queries: ThreadView has them). One thread, one client: followers
share only the connection. Progress events belong to one run, so a run that ends
deletes all of them.

### Runs

| Run | Instance | Question |
|---|---|---|
| `liveness`, part follow | 2 writers, 2 events, batch of 1, 1 fault, fair | Types; the feed is implemented; a follower asleep under a live listener has a notification coming for each event it has not read, failed publishes apart; every durable event reaches the client |

Bounds. Two writers can take numbers in one order and commit in the other (the
mutant without the row lock does); a batch of one makes every fetch a full one
and two events make a second fetch; the proofs below hold for any batch. One fault breaks the stream,
the connection or a publish, or reloads the page.

Fairness. The client retries until it is closed (`Follow`), the generator and
its 30-second timer run on (`Generate`), bytes arrive while the stream is up
(`Receive`). Writers, notifications and the listener connection are not fair:
the property holds with every notification lost.

### Proofs (`ThreadFollowProofs`)

`TypeCorrect` is inductive as it stands. `NoLostWakeup` is not: that a follower
asleep misses nothing depends on the batch it fetched before it fell asleep, and
on what committed meanwhile. The invariant is `WakeInv`: types, the batch is
ahead of `reach` and empty outside `yield` (`Behind`), and a follower that is
asleep *or at the end of a batch that was not full* (`Dozing`), subscribed, under
a live listener and not told of a change, has a notification on the wire or
misses nothing (`NothingMissed`: an event past `reach` is in the batch, yet to be
announced, or its publish failed). Each kind of step keeps it: a writer covers
what it adds (`WritersCover`); a connection that changes its state is down or has
told its subscribers (`LinkWakes`); a batch that is not full holds all there was
to fetch (`ShortBatch`, the one place that counts, with the library's facts
on cardinalities). Nothing is assumed of the number of writers or of the bounds;
`FollowConstants` supplies that a batch is not empty.

`FeedImplemented` proves the refinement. A reader that moves past a number must
have been given every durable event up to it, so the invariant `FeedInv` says
where those events are: at most one writer is open, because it holds the thread
row (`OneOpen`), and its numbers are above all that is committed, read or under
way (`Spent`, `AllSpent`); durable rows between the client's cursor and `reach`
are in the stream (`StreamInv`), those between `reach` and the batch's last in the
batch (`BatchInv`). Each group of actions then maps to a step of the feed or to a
stutter: a commit to new events, a receive to the reader's move, a break to its
return to its own cursor.

Only model-checked: liveness.

## 5. The stored home: `HomeStore`

### Correspondence

`dest` and `previous` are the two directories of a bot: absent, empty, or a
workspace, named by the commit that brought it. A call is a commit or a read;
`place` is the file operation it awaits next, and each operation is one step.
`rename` moves a directory only to a name that is free or an empty directory,
and throws otherwise (`RestoreLate`, `AsideLate`, `LandLate`). The mutex is no
variable: `Locked(p)` says that a commit of process `p` is under way. `landed`
and `crossed` are history variables: the workspace that came into place last,
and whether commits of two processes ever overlapped.

| Action | Code (`packages/adapters/src/home.ts`) |
|---|---|
| StartCommit, StartRead | 184-203; callers: `computer-workspace.ts` 26-62, exportHome, readFile, list |
| Look, Check, Restore, RestoreLate | recoverInterruptedCommit 178-182, and 69-71 with `task` "undo" |
| Copy, Clear, Probe, Aside, AsideLate | 62-65 |
| Land, LandLate, Undo, Tidy | 66-79 |
| Mkdir, Walk | 98-100, 302-330 |
| MakeHome | `EX` 1134-1135, `RT` 585-586 |
| Fail, Crash | an operation throws; a process dies with its calls |

Abstractions: copying to staging, removing a tree and walking one are single
steps (staging is the call's own; `.previous` is removed only by commits; a walk
that a rename tears is no better than the empty one of `home_import`). A
workspace that is committed is not empty: on remote machines it holds at least
the browser profile. Docker homes are mounted and never committed. `writeFile`,
`checkout` and `restore` have no caller outside tests; the revision marker is
written after the home is in place and read by no decision.

### Runs

| Run | Instance | Question |
|---|---|---|
| `home_safety` | 3 calls, 2 in one process, 4 commits, 2 faults | Types; no step of any process brings back an older workspace; while commits are serialized one fault loses nothing |
| `home_crossed` | violated, 1 fault | "checkpoints are serialized per bot" (`docs/computer-runtime.md`): not between the API and a worker, and then one fault loses the home |
| `home_import` | violated, no fault | "New or replacement machines import the latest stored workspace before use": an export during another process's commit returns nothing |

Bounds. Two calls of one process and one of another make every pair that can
meet; a home must be in place before it can be lost, so the second commit is the
first interesting one and the third sees a repair; `NotLost` speaks of one
fault, the second lets `NoRollback` see a fault during a repair. Deadlock is
not checked: after the last commit and read nothing is left to do. Nothing must
happen, so there is no liveness property.

### Proofs (`HomeStoreProofs`)

`TypeCorrect` and `NeverBack` (`NoRollback` is inductive with the types) hold of
the code as it is. `KeptThroughFault` proves `NotLost` with `KeepInv`: unless
commits crossed, there is one writer (`Alone`), it knows what its checks found
although readers repair meanwhile (`Knows`: nothing is set aside when it renames
the home away, and the home is in place when it tidies), and before the first
fault the home is away only between the two renames (`Whole`). So a first fault
finds the home in one of its two places, and afterwards only a commit that will
replace it removes what was set aside. The theorem assumes neither a number of
calls or processes nor a bound; `home_crossed` shows that `~crossed` cannot be
dropped.

## 6. The computer: `ComputerLifecycle`

### Correspondence

`state`, `named` and `touched` are the computer row of one bot: its state, its
`providerRef`, and whether `updatedAt` has moved since the idle job read it.
`power` and `disk` are the provider's machines and the work on them; a piece of
work is named by the run that did it. `home` is the work in the stored home,
`life` the runs' statuses as far as the computer cares. A record per call says
at which await it is, which machine it refers to and whether that was created
for it, and what it exported. `hydrated` is a history variable.

| Action | Code |
|---|---|
| Submit, Cancel, NoticeCancel | `RT` 470-508; `EX` 694-712 |
| Ensure, Mark, Record | ensureComputer, `EX` 1136-1169; computer.boot, `RT` 582-621, which does the same |
| Connect, Create, Restore | `adapters/src/e2b-sandbox.ts` 125-166, 313-339; `EX` 1152-1158 |
| EnsureFails | `EX` 1170-1179, `RT` 613-619 |
| Work, WorkFails, Finish | `EX` 738-878, 925-965; pauses for an answer or a takeover, `EX` 738-807 |
| Export, Commit, CheckpointFails | `adapters/src/computer-workspace.ts` 26-62, and again in the turn's catch, `EX` 948-954 |
| Stop; Sleep, Check, Recheck; Halt, Settle | `RT` 622-635; `adapters/src/computer-idle.ts` 47-96; both |
| Takeover, Touch | `RT` 636-660, 669-742, 763-780 |
| Lose | the provider discards a machine |

Abstractions: one remote provider (E2B); a reference of another kind counts as
none. A docker home is mounted, so nothing is exported. A commit is one step:
`HomeStore` has its parts. A run's lease is not lost while it works:
`RunLifecycle` has that. `Recheck` reads row and runs in either order, as
`Promise.all` does. The holder of control and the events are left out.

### Runs

| Run | Instance | Question |
|---|---|---|
| `computer_safety` | 1 run, boot, stop and idle job, 3 calls in all, 2 machines, 1 fault | Types; no machine is named or worked on before it received the home; a failed boot destroys none in use; the idle job finds the row unchanged only if its checkpoint has all the work |
| `computer_work` | violated, no fault | "The portable bot workspace is the durable boundary" (`docs/computer-runtime.md`): a boot and the first run create a machine each, and a checkpoint of the wrong one replaces the home |

Bounds. One run can be dispatched again and again while it is active; with boot
it makes the two calls that can create, and two machines are all that two
creations need (a third creation waits for the next instance). `MaxCalls` of
three lets a boot, a stop and an idle job overlap, or one of them come three
times; one fault fails any one step or loses one machine. `SleepSawAll` needs a
run that comes and goes within one idle job. Deadlock is not checked: a bot may
be left alone. A cancelled run may still write while the machine is put to
sleep; `SleepSawAll` excepts it, and its work stays on the paused disk.

### Proofs (`ComputerLifecycleProofs`)

`AlwaysHydrated` and `NeverDestroyedInUse` rest on `Ownership`: every reference
is to a machine that was created and not destroyed and, unless the call has
still to restore it, hydrated (`RefsInService`, `NamedInService`); a machine
that a call created is in no other call's hands and not in the row until it is
recorded (`OwnedBySelf`), so what `EnsureFails` destroys is its own; and a call
that has not provisioned yet owns nothing (`NotYetFresh`). Most actions neither
create, destroy, restore nor record, and `CalmKeeps` handles them at once. The
theorems hold for any number of runs, machines, calls and faults.

`SleepMissesNothing` proves `SleepSawAll` with `SleepInv`, which says what the
row's `updatedAt` stands for. While nobody has written the row since the idle job
read it and found no active run, a run that is active now has at most marked the
row (`ActiveOutside`: to go on it must write it), so what the checkpoint holds and
what is on the disk differ only by cancelled runs (`ExportHolds`); a run that is
over has left its call (`Settled`), and only a call that created a machine restores
one (`RestoresOwn`). It holds for any number of runs, machines, calls and faults.

## 7. What a client shows: `ThreadView`

| Code | Definitions, with their lines |
|---|---|
| `SH` | ViewInit 44-84, AskThread 99-108, AskFirst 155-171, Apply 109-126, FailFetch 190-208, Receive 172-189, AskOlder 128-137, ViewNext 1037-1052 |
| `RT` | CreateMessage 435-481, ReadPage 1297-1306, ReadRun 1307-1309, ReadLast 1310-1312, ReadLive 1313-1334, SnapshotOf 1335-1358 |
| `EV` | AppendCreated 49-63, FinishTurn 65-135 |
| `packages/core/src/events.ts` | StartTurn 88-99, SayDelta 3-40, ThreadStep 41-86 |
| `apps/api/src/thread-message-pages.ts` | First 4-16, PageOf 17-25, OlderOf 27-40 |
| `packages/core/src/message-pages.ts` | Without 56-66, EntriesOf 56-66, MergeById 56-66, MergePages 36-54, MergeHistory 12-22, Prepend 24-34 |
| `apps/mobile/app/thread.tsx` | AskAgain 63-90 |
| `apps/web/src/lib/thread-events.ts` | Reduced 39-102 |
| `apps/mobile/lib/api.ts` | LoseStream 214-256, ClientStep 258-334 |

The thread is a log of created messages and of deltas of the run in progress. A
snapshot is put together from four reads of their own, each of which may see a
later thread than the last. Refreshes, the stream and the loading of older pages
overlap; the stream breaks and comes back from the client's cursor.

`NothingLost`: after a reconnect the view has every message from the first of its
page on, each once. Left out: what a block of a message looks like, and the
events that change no message. The run has pages of one message, two messages,
one run of one delta and two breaks: a message that misses its page and one that
is in two reads are the smallest cases.

Proof (`ClientProofs!NothingIsLost`): `ViewInv` relates every fetch under way and
the view to the log. `LoopInv` says at which number the stream goes on, `BaseInv`
that the view holds what the log had there, `AskedInv` and the types of a fetch
that its four answers are no older than the log at the time of asking. Merging
pages keeps an entry of each id (`KeepsSome`, `ApartIds`); that a statement holds
of every prefix of a sequence is proved from the least index at which it fails.

Shown by the models, not by a run: a text in progress is doubled by replayed deltas;
`loadOlder` may answer after a refresh has replaced the view it was asked for;
`mergeMessagePages` compares the numbers of messages with those of events.

## 8. A turn: `AgentTurn`, `Subagents`, `ToolNames`, `Redaction`

| Code | Definitions, with their lines |
|---|---|
| `packages/adapters/src/pi-runtime.ts` | TurnInit 27-44, Push 803-811, PushAndClose 178-186, StartRound 49-125, Speak 126-160, Reasons 197-245, CallTool 427-462, EndRound 161-186, Reads 816-827, Sleep 816-827, EndTurn 188-193 |
| `EX` | BeginTurn 658-694, Lookup 366-383, RecordEffect 1073-1105, Perform 384-527, CompleteEffect 1107-1119, Take 712-737, LeaveLoop 694-807, AgentStep 529-646, ReaderStep 808-868, TurnNext 658-868 |
| `packages/adapters/src/scripted-runtime.ts` | Ended 25-112 |
| `packages/adapters/src/output-continuation.ts` | TextOf 50-60, Unheard 62-66, Continues 15-22, Exhausted 15-22, Decide 68-97 |
| Code | Definitions, with their lines |
|---|---|
| `packages/adapters/src/pi-runtime.ts` | SubagentInit 82-96, CallHelper 784-795, Resume 465-467, LetGo 796-801, StartHelper 468-510, Progress 511-554, EndHelper 555-598, Abort 45-48, CloseTurn 161-186, HelperStep 442-448, SubagentNext 98-160 |
| `packages/core/src/events.ts` | Report 101-113 |
| `apps/web/src/lib/thread-events.ts` | PutCard 61-77, ReplaceCard 128-131 |
| `EX` | HandleReport 818-840, WriteHelper 840-855 |
| Code | Definitions, with their lines |
|---|---|
| `packages/adapters/src/pi-runtime.ts` | Reserved 300-304, Taken 326-328, Suffixed 330-343, Candidate 307-320, ExposedNames 295-324, OfferTools 276-293 |
| Code | Definitions, with their lines |
|---|---|
| `packages/core/src/events.ts` | RedactInit 128-132, MaxLength 129-130, Scan 140-153, SafeStart 139, Drain 133-154, PushText 157-160, Finish 161-163 |

A turn is two actors, the agent that pushes events into a queue and the executor
that reads them and may leave at any of them. Slots run turns of one run again
after a crash or at once, with the same execution ids. Deltas are numbers; a tool's
effect is a count. `EffectOnce`: an effect happens at most once and not before its
intention was recorded. `AnswerLossless`: an answer that ran over several rounds
has each delta once. `TurnEnds` (liveness): a turn ends on both sides.
`NoIdlePlace`: no helper waits at the gate while a place is free. `HelpersAreTold`:
what became of a helper is told once. `NamesTellApart`: two tools of a turn have two
names. `CutAnyhow`: a text in pieces is redacted as the whole text is.

Bounds: two slots, one effect, two rounds (one continuation); three helpers and
one place, so that two wait; three tools out of five, which holds each way of
colliding; texts of up to seven letters in pieces of up to three, with secrets that
begin or overlap each other.

Proofs (`WorkProofs`): `EffectsOnce` with `EffectInv` (what a slot carries out it
has recorded, `Recorded`; of all slots at most one comes to carry out an execution
id, `OneApplies`, because creating the row is what decides); the helpers' part of
`PeersAndHelpersKept` with `GateInv` (the count of the gate is the number of
helpers past it; nobody waits while it is not full) and `TellInv` (reports lie in
the queue in the order of the helper, and the message is written after the last);
the names' part of `CallsStayOwn`: the search for a number that makes a name free
ends by counting, since the numbers up to the number of tools are more names than
there are tools. `AnswersStayWhole` joins two invariants that do not touch.
`AnswerInv` is about the deltas of an answer: what the reader has assembled counts
1, 2, 3, ... and the queue holds the deltas from there to what the agent has said, in
order among other events (`InOrder`, `ReadingInv`). The delicate case is a round
that has streamed no text: then its done event, the last of the queue, carries the
text, and the reader has to take it from there (`Unheard`), once. `RedactInv` is about the
letters, and stronger than `CutAnyhow`: what was shown, followed by the redaction of
what is held back with anything that may still come, is the redaction of all that was
heard with the same to come. `Scan` is a recursive function, so that it has a value
at all is a lemma (`ScansExists`, from the end of the text backwards by `FromTheEnd`,
each step going on because no secret is empty: `RedactConstants`, as
`createStreamingRedactor` drops empty ones). `PrefixFinds` is why a cut does no harm: a place before
`safeStart` finds the same secret whatever comes later, since the longest one that
could begin there has been heard to its end; `ScanShift` says that from such a place
on a scan does not depend on the text before it.

Shown by the models, not by a run: the agent goes on after the executor has left
the loop (`EX` 290), because nothing aborts its signal; tool calls without an id
share a fallback id per name (`pi-runtime.ts` 429); `continueRun` never calls the
`finish` of its progress redactor; `redactSecrets` replaces one secret after another
and the streaming redactor the longest first, which differ for overlapping ones.

## 9. Bots that put each other to work: `PeerWork`

| Code | Definitions, with their lines |
|---|---|
| `packages/adapters/src/peer-connector.ts` | PeerInit 18-32, CreateRun 424-450, Enter 178-183, CallPeer 297-333, CallReact 209-233, WithinBudget 376-380, Count 256-264, CheckHop 334-349, Post 397-422, Wake 424-458, Fail 368-374, CallStep 265-296, Return 350-374, Go 234-249, PeerNext 178-374, Targets 461-493, HopOf 382-388, NoRunRow 35-45 |
| `RT` | Prompt 373-417, AnswerPrompt 564-576, BeginDestroy 398-417 |
| `EX` | EndRun 1002-1012, Call 621-646, Begins 552-584 |
| `packages/adapters/src/team-delegation.ts` | CallTeam 1-44 |
| `packages/adapters/src/reaction-store.ts` | React 17-49 |
| `packages/db/src/repos.ts` | Spawn 84-175 |
| `packages/adapters/src/child-bots.ts` | StartSpawned 70-109, DeleteSpawned 111-164, CancelRuns 181-187, DestroyMachine 188-200, DeleteRow 201-206, DeleteFails 201-206, BotStep 166-187 |

A run has several tool calls under way at once. Each call counts the effect rows of
the run, its own among them, then checks the hop, posts and wakes. `DirectBudget`:
what one tool may do within a run is bounded. `HopsBounded`: a run that was woken
by a peer is within MAX_PEER_HOPS of one that was not. Bots are spawned and
destroyed meanwhile. Bounds: two bots, three runs, two calls of a run, one send,
one hop: every limit is reached and passed by one.

Proof: `PeerInv` says for each call where its effect row and its wake are counted
(`CallShape`), and that what a run has woken plus what its calls may still wake is
within the rows that passed the count (`PeerBudget`); with `CallSlots` finite.

Shown by the models, not by a run: a `delegate_team` call is not counted by row;
spawning a bot and answering a question start again from hop 0; destroying a bot
that fails after its machine went leaves the row (`child-bots.ts` 166-206).

## 10. Routines: `RoutineSchedule`, `Cron`, `ServiceSchedule`

| Code | Definitions, with their lines |
|---|---|
| `packages/adapters/src/job-reconciler.ts` | RoutineInit 89-102, Before 110-125, FirstRuns 127-145, FirstRoutines 146-159, Scan 104-160, EnqueueRows 162-169, EnqueueScanned 162-184, FailScan 181-205, LoseLock 65-86, LoseClient 33-62 |
| `packages/adapters/src/wakeup.ts` | Tick 119-143, EnqueueWake 18-31, HandOut 58-73, FailWake 82-143 |
| `EX` | CreateRoutineRun 168-188, Stands 149-150, ReadRoutine 146-161, Defer 94-102, ClaimTime 162-190, EnqueueNext 191-199, EnqueueRoutineRun 200-201, RoutineNext 146-201 |
| `packages/adapters/src/background-job-handlers.ts` | TakeRun 11-31 |
| `packages/adapter-kit/src/background-jobs.ts` | EndWake 18-71 |
| `RT` | CreateRoutine 855-884, Chosen 894, ReadUpdate 885-905, WriteUpdate 906-940, RemoveRoutine 941-949, TestRun 950-980, EnqueueAsked 928-938, FailRequest 880-884 |
| Code | Definitions, with their lines |
|---|---|
| `packages/core/src/cron.ts` | Base 32-34, CronFromPreset 36-50, PresetFromCron 52-102, Hourly 72-74, Interval 75-83, Timely 88-100, Describe 104-133, MinutesToNext 135-153, ParseClock 155-162, FormatClock 164-168, IsStep 170-179, MatchField 181-195 |
| `apps/web/src/pages/RoutineSchedule.tsx` | Pickable 62-126, Typed 127-135 |
| `SH` | OpenEditor 711-763, Edit 799-837, Save 838-892 |
| `EX` | Fire 162-167 |
| Code | Definitions, with their lines |
|---|---|
| `packages/core/src/service-schedule.ts` | WindowActive 25-43, Desired 45-63, WeekdayAt 65-73, Bound 75-80 |

Time is counted in ticks. A wake-up reads the row, may defer, computes the next
time, and in one transaction claims the time and creates a run if the row still
says what it read; then it enqueues the next wake-up. The API creates, updates,
removes and tests routines; the reconciler scans runs and routines in batches
under an advisory lock that its process can lose without knowing.

`OneRunPerTime`: a scheduled time makes one run, and one more for each time that
an update wrote it back into the row. That exception is the code's
(`RT` 894-916 read and write without comparing), and `restored` counts it.
`RoutinesAreServed` (liveness): a due routine fires and its run is taken up,
whatever job, scan or worker is lost.

`Cron` translates the presets of the editor, the description and `nextCronDate`
over a week with short days: `ScheduleSurvivesSave` and `FiresAtFirstMatch` hold,
`FiresOnShownDay` does not (`cron_day`). A cron that never matches fires every
minute. Proof (`ClientProofs!SettingsStay`): `CronInv`. Every preset that can be in
the editor comes back from the cron it is saved as (`Keeps`; a clock of twelve hours
goes there and back, `ClockComesBack`), and the search from minute to minute stops at
the first match, by least numbers (`SearchFinds`), and misses none, since
hours and minutes repeat daily (`DaysRepeat`). It assumes that typed crons give
hours and minutes of a clock (`ClockExpressions`). No code checks this: the contract
of the API (`contracts/src/domain.ts` 112) takes any text, and the editor would open
an hour of 25 as one o'clock in the afternoon (`cron.ts` 164-168) and save it so.

`ServiceSchedule` is `isScheduleWindowActive` and `desiredScheduledState`
against a set of minutes: `SessionsSurviveWindow`; nothing in production calls the
second yet. Proof: `CoveredMinutes`, which says by division with rest which minutes of
the week a window covers, for days of any number of minutes and weeks of any number
of days.

Bounds: one routine, two workers, one request at a time and two in all, one tick
to come, two runs, one fault; for liveness two routines and a batch of one. Three
minutes to the hour and four hours to the day have a noon, a midnight, morning and
afternoon, and intervals that do and do not divide the hour; services have
windows over midnight, of no length and switched off.

Proof (`RoutineScheduleProofs!OneRun`): `PaidInv`. A time that stands in the row has
been fired no oftener than it was put back (`Standing`), and the next time that a
handler computed is another one than its own (`Handlers`). Ids are new (`Unborn`).
Any clock skew, horizon and number of actors.

Shown by the model, not by a run: a reconciler that scanned before an update
enqueues the old time over the new job, which the next tick mends.

## 11. Credentials and accounts: `ModelCredentials`, `ModelSetup`, `Connections`

| Code | Definitions, with their lines |
|---|---|
| `packages/adapters/src/pi-credentials.ts` | CredentialInit 10-39, BeginRenew 41-50, Renew 50-53, BeginPersist 53-63, FinishRun 65-75, LoseFresh 51-62 |
| `EX` | Acquire 1288-1305, Release 1299-1305, BeginResolve 1219-1230, KeepSecret 1231-1249, Outdated 1261-1264, Adopt 1264-1271, Compare 1254-1272, Update 1273-1278, CredentialNext 1208-1286 |
| `packages/adapters/src/pi-oauth.ts` | Issue 149, ReadSecret 85-111, RefreshSecret 118-150, UseSecret 151-158 |
| external | NewGeneration: oauth.refresh of a provider, pi-oauth.ts:150 |
| `RT` | BeginList 187-204, RefreshForList 205-206, KeepForList 207-221 |
| Code | Definitions, with their lines |
|---|---|
| `apps/web/src/pages/ModelSettingsOverlay.tsx` | SetupInit 14-90, ConnectKey 92-146, MakeDefault 148-162, SignIn 164-180, Leave 202-205, EndFlow 193-200 |
| `apps/web/src/pages/Onboarding.tsx` | Start 52-89, GiveUp 191-199, TabStep 144-190 |
| `packages/adapters/src/pi-oauth.ts` | Begin 174-204, ShowCode 206-231, Grant 232-238, Refuse 239-246, Began 247-265, Poll 267-291, RestartApi 293-310, Asked 312-332 |
| `RT` | StoreSecret 1429-1450, Select 274-288, ClearDefaults 289-296, Waited 1451-1455, Commit 1456-1475, Locked 297-319, SetupFails 242-273 |
| Code | Definitions, with their lines |
|---|---|
| `packages/adapters/src/composio-connector.ts` | ConnectionsInit 104-124, SetApiKey 125-134, BeginSession 136-139, UseSession 154-165, CreateSession 140-152, Authorize 251-280, ConnectionReady 282-296, FindAccount 304-309, DeleteAccount 298-302, Execute 176-222, Executed 223-249, HandlerFails 428-460, NoClient 311-322 |
| `apps/api/src/local-connectors.ts` | WithKey 30-43, Newest 8-28, PutSecret 45-66, FindInstall 67-76, WriteInstall 77-95, ReadInstalls 108-119, DropInstalls 120-127, DeleteSecrets 96-106 |
| `RT` | Connect 1080-1096, Complete 1126-1160, Revoke 1162-1184, WriteStatus 1097-1125 |
| external | GrantAccess: Composio: the user grants the request that authorize has begun |
| `apps/api/src/app.ts` | NewProcess 98-112 |
| `apps/web/src/pages/PluginsOverlay.tsx` | OverlayStep 33-148 |

A credential of a subscription model is a generation: the provider numbers what
it issues and takes each refresh token once. Runs refresh it under a lock of their
process, when they start or through the store of their runtime; the API's
`models.list` refreshes it without a lock. `StoredNewest`: a secret that was
refreshed is stored or lost by a fault. `NeverOlder`: no step puts back an older one.
Both are about behaviours in which refreshes of two processes, or of `models.list`,
do not overlap (`KeptApart`): the code has nothing that keeps them apart, and the
provider then refuses one of them. Proof: `CredentialInv` (who holds the lock, and
what a run that is not at a refresh carries).

`ModelSetup` is two tabs that connect with a key or a device code while sign-ins
live in the API's memory. `SignInStoredOnce`, and `DefaultStays`: as soon as a user
has a credential there is a default. Two tabs can leave two defaults (`RT` 1449),
ties of `updatedAt` are broken by the database, onboarding's polling overrides
Skip, and `setDefault` reads `selected` before its transaction. Proof
(`ClientProofs!SettingsStay`): `SetupInv`. A sign-in belongs to one tab until it is
stored and to none afterwards, one at most is in memory (`LoginsInv`), and a row that
was chosen stays, so that a commit leaves a default (`ChosenInv`).

`Connections` is the key of Composio, stored as a row that names a secret and kept
in the connector with a client and sessions. `KeyHasSecret`: the newest row's secret
exists. `OwnSession`: a call uses a session of its own user under the key of its
client. Proof: `KeysInv`. A save writes its secret before its row and a removal
deletes the rows before the secrets, so a row that is there has its secret unless
its removal has begun (`KeyRowsInv`, `SavingInv`, `DeletingInv`).

Shown by the models, not by a run: `complete` writes "ready" over a revocation
(`RT` 1126-1160), two `connect` leave two rows, `findAccount` reads the first page,
a grant after 90 s of polling is not seen, `waitForConnection`'s failure is
swallowed, changing the key leaves rows "connected".

Bounds: four generations for two runs and two listings; two tabs, two sign-ins,
three rows, one outage; two tabs, two keys, one row, one trouble.

## 12. Tools, processes, machines, memory

| Code | Definitions, with their lines |
|---|---|
| `RT` | McpInit 982-997, InstallServer 998-1021, RemoveServer 1022-1031 |
| `packages/adapters/src/mcp-connector.ts` | Named 107-112, Separators 114-118, ServerId 119-123, Discover 66-84, Discovered 131-162, Target 87-104, ExecuteTool 164-199 |
| `apps/api/src/local-connectors.ts` | Configured 140-205 |
| `packages/adapters/src/mcp-client.ts` | Called 15-46, EndedAs 129-142, NextRequest 89-128, AnswerRequest 47-73, CallFails 171-198, ChildCloses 75-83, ToolReturns 145-169 |
| `packages/adapters/src/composio-connector.ts` | Offering 325-359, ChooseTool 361-380 |
| `apps/web/src/pages/McpOverlay.tsx` | McpNext 19-72 |
| Code | Definitions, with their lines |
|---|---|
| `packages/adapters/src/cli-agent.ts` | SpawnCli 223-240, TakeOutput 242-262, TimeOut 264-270, ForceKill 267-268, OnAbort 272-279, Settled 281-289, SpawnFails 291, OnClose 292-293 |
| `packages/adapters/src/prime-agent.ts` | HarnessInit 240-255, Request 95-196, Respond 209-223, Closed 225-232, BreakLine 33-72, RpcChildExits 257-301, CloseSession 198-207, RpcNext 303-326 |
| Code | Definitions, with their lines |
|---|---|
| `packages/adapters/src/docker-sandbox.ts` | Provision 62-88 |
| `infra/sandboxes/supervisor/src/index.ts` | LookForImage 398-412, ImageSettled 413-431, ImageReady 60-79, List 437-448, Inspect 79-94, RemoveOutdated 84-88, StartBox 89-106, ScreenUrl 489-507, Manage 450-464, StopBox 357-369, DeleteBox 371-384, Operate 136-285, DockerFails 106-113, Restart 386-396 |
| `infra/sandboxes/supervisor/src/computer-spec.ts` | CreateBox 26-61 |
| Code | Definitions, with their lines |
|---|---|
| `packages/adapters/src/host-aware-sandbox.ts` | Computers 18-21, HostInit 23-54, Content 67-69, ProvisionComputer 71-89, Write 137-139, HostNext 91-160 |
| `RT` | Chosen 1404-1412, Switch 159-183, BootComputer 582-621, StopHost 622-635 |
| `packages/adapters/src/desktop-sandbox.ts` | Fresh 62-77, HaltComputer 208-230, RestartProcess 244-259, fileVars 289-305 |
| `EX` | Replaced 1153-1158, EnsureComputer 1121-1169, ProvisionFails 1170-1180, LeaveComputer 901 |
| `packages/adapters/src/computer-workspace.ts` | Restored 15-24, CheckpointHome 26-45 |
| `packages/adapters/src/docker-sandbox.ts` | StaleMount 62-88 |
| `packages/adapters/src/computer-idle.ts` | SleepHost 37-96 |
| Code | Definitions, with their lines |
|---|---|
| `packages/memory/src/mnemosyne.ts` | Snapshots 45-55, MemoryInit 82-109, EnsureIndex 168-176, Settles 177-182, ReadManifest 184-192, NoManifest 299-307, RemoveSome 194, RemoveRest 194-195, StoreNext 196-202, WriteManifest 204-208, Recall 111-166, CommandFails 220-282 |
| `packages/memory/src/index.ts` | FindDocument 69-78, WriteDocument 79-93, RecordRevision 94-104 |
| `packages/memory/src/hybrid-memory.ts` | ReadDocuments 41-105 |
| external | CrashMemory: The process of the API or the worker dies between two steps |
| `RT` | MemoryNext 802-835 |

`McpTools`: `RoutedToOwner` (a tool runs on a server with the id that offered it)
and `OwnAnswers` (a call takes the answer to its own request). Proof: `McpInv`, and
`PlainComesBack`, which says that the name of a tool leads back to the id of its
server if no id contains "__" or ends in "_". That hypothesis, `PlainIds`, is stated
in `CallsStayOwn`; other ids are cut at the wrong place (`mcp-connector.ts`
107-122), and the instance of the run has an id that begins another one.

`HarnessProcess`: a child may ignore SIGTERM and leave a process that holds the
pipes. `LossIsTold`, `RpcSettlesOnce`, `CloseStopsChild` and `CliSettles` (liveness,
given that a killed child ends and its heirs do). After a malformed line `close`
returns early and the child lives on; an abort and the output limit send SIGTERM only.
Proof: `HarnessInv`. A session that is closed was stopped, has lost its child or met
a broken line (`RpcInv`); requests settled together keep their counts (`SettleKeeps`).

`Supervisor`: handlers of several requests await Docker at every step.
`AnsweredLives`: a container that was answered stays until it is deleted or a newer
image replaces it. A failed image build is remembered for ever (`index.ts` 398),
deletion and stop swallow failures (364, 379), and a provision that failed after
`create` is later answered as resumed. Proof: `BoxesInv`. Containers are numbered as
they are created, by an image that was there, and images only get newer; a handler
about to remove one as outdated holds one whose image was replaced (`Holding`), so
that none of the others' steps can make it the newest again.

`HostChoice`: the owner switches between a container and this Mac.
`KeptAcrossHosts`: a turn finds the files of the last one, but for the two gaps
that `gap` records: a container left running works in a home that a commit has
replaced, and a computer booted by the API during a turn imports the older home. Proof: `HostInv`.
Until a gap is met the stored home has what was finished, so has the directory on
this Mac while the row names it, and a turn works on the computer that the row
names (`HostKeeps`).

`MemoryIndex`: `SkipsOnlyWhenBuilt` (a search that leaves the index alone finds it
complete or empty) and `RevisionsAreKept`. An index may be empty though its
manifest matches: a crash between the two files of the removal. Proof:
`MemoryInv` with `RebuildInv` (what a search that rebuilds has removed and stored, as
each of its places implies), `Whole` (an index with a manifest and no rebuild is
complete or empty) and `RevisionDue` (a commit under way writes the next revision
or fails).

Bounds: two servers; two requests, output of two; two requests, three containers,
two images; three versions, two switches; two searches, two writers, one document,
three commits; one trouble each.

## 13. Screens, phone and desktop

| Code | Definitions, with their lines |
|---|---|
| `SH` | ShellInit 44-86, Shown 138-148, Leaves 273-280, AskList 149-153, TakeList 87-97, SelectBot 367-397, RefreshThread 155-213, AfterRefresh 238-255, TakeThread 99-126, Ask 215-221, OpenPanel 626-648, CloseFull 280-295, Boot 236-247, AutoBoot 257-272, OpenComputer 297-306, EditRoutine 710-764, AskDelete 893-911, SaveRoutine 838-881, RemoveRoutine 912-934, CreateBot 1267-1325, DeleteBot 1326-1475, Answered 223-234, Broken 308-315, ShellNext 772-798, Goes 734-751 |
| `RT` | Elsewhere 398-417 |
| Code | Definitions, with their lines |
|---|---|
| `apps/web/src/pages/bot-appearance.ts` | Looks 33-59, NewestOf 8-31 |
| `packages/core/src/bot-personality.ts` | Sections 58-64, SaveSteering 164-208, SaveRole 65-84 |
| `apps/web/src/pages/CreativeRuntimeHost.tsx` | StudioInit 16-48, Refresh 50-133, CloseStudio 276-293, InstallLook 135-143, UpdateColor 145-146, UpdateFails 147-150, RemoveLook 152-156, WriteFails 158-163 |
| `SH` | ShellRefreshes 149-153 |
| `RT` | InstallFails 998-1021, WriteText 380-397 |
| `apps/web/src/pages/SteeringStudio.tsx` | StudioNext 70-109 |
| Code | Definitions, with their lines |
|---|---|
| `apps/mobile/app/_layout.tsx` | MobileInit 7-16 |
| `apps/mobile/lib/api.ts` | LoadApiBase 27-46, SignInAnswered 77-88, StoreServer 48-70, ClearSession 92-99, DeletionRefused 101-112 |
| `apps/mobile/app/index.tsx` | Mount 52-85 |
| external | Kill: The system kills the app: what is not in the secure store is gone |
| `apps/mobile/lib/session.ts` | NoToken 5-11, Tokens 21-42, SaveToken 13-15, ClearForServer 17-19 |
| `apps/mobile/app/sign-in.tsx` | Submit 55-66, SaveServer 159-202 |
| `apps/mobile/lib/endpoint.ts` | ProbeFails 52-80 |
| `apps/mobile/app/account.tsx` | SignOut 29-34 |
| `apps/mobile/app/computer.tsx` | OpenScreen 45-52, LeaveScreen 196-203, ComputerRefresh 35-43, BootComputer 54-66, BootEnds 67-77, BootUnasked 79-89, OpenOnPhone 99-113 |
| Code | Definitions, with their lines |
|---|---|
| `apps/desktop/src/main.ts` | DesktopInit 18-36, Load 153-166, LoadFails 161-165, ShowLauncher 167-174, CreateWindow 125-152, Choose 298-303, MenuRuntime 190-226, CloseWindow 176-188, MainStep 334-411, NoTrust 60-89 |
| `apps/desktop/src/runtime-session.ts` | BeginLoad 33-34, Release 60-74, Navigate 46-49, LoadDone 50-51, Fail 39-44, ReachStep 52-58 |
| `apps/desktop/src/runtime-profile.ts` | Activate 38-103, Launchers 105-156 |
| `apps/local-runtime/src/index.ts` | FinishStart 38-60, Closing 459-464 |
| `apps/desktop/src/runtime-health.ts` | Probe 21-69 |
| `apps/desktop/src/runtime-settings.ts` | Persist 9-35 |
| `apps/desktop/src/terminal-session.ts` | CreateTerminal 64-113, EndTerminal 136-168, Live 114-135 |
| `RT` | FollowThread 428-434 |
| `apps/desktop/src/runtime-bootstrap.ts` | Origins 35-62 |
| Code | Definitions, with their lines |
|---|---|
| `apps/local-runtime/src/index.ts` | StartLite 43-52, LoadSecrets 423-432, CreateSecrets 397-421, OpenDatabase 53-61, ExecMigration 163-176, Unrecorded 177-184, Altered 185-192, RefuseAltered 186-190, RecordMigration 193-207, Migrated 62-80, OpenNext 81-137, StopLite 138-152, CloseNext 153-161, AskPage 209-223, TryIn 225-235, SignUp 236-243, TryAgain 244-260, ToPage 261-298 |
| `apps/api/src/app.ts` | After 41-188, CloseOrder 307-328 |

`ShellView` is the shell page: which bot is shown, the panel, and requests whose
answers find another bot. `EditsOwn`: a panel edits what belongs to the bot it
shows. `BusyForAReason`: it shows an activity only while a request of its own is
under way. Proof: `ScreenInv`; `ListKinds` says what kind of request a place of
`flight` stands for.

`BotStudio` is the look of a bot, saved by up to four requests from several tabs.
`LookNotOlder`: a bot never gets a look older than one it had. Proof: `StudioInv`. A
save replaces rows that are older than its own (`RowsInv`), so the row of the newest
save is kept; that there is a newest one is proved from the least number.

`MobileApp`: `StaysSignedOut` (a session that was signed out does not come back) and
`OverlayGoes` (the overlay of a boot goes with the boots). Proof: `PhoneInv`; session
ids are given once (`SessionsInv`).

`DesktopShell`: `PageIsAlive`: when no call is under way the open window shows a page
of a runtime that is up, and trusts no other; `TerminalsFollowWindow`. Proof:
`DesktopInv`. Every running Lite runtime belongs to one call or to one window
(`RuntimesOwned`); a window whose page is dead has a call that brings another one
(`WindowInv`); trust is nowhere, with the page of the window, or about to be taken
back (`TrustInv`).

`LiteRuntime`: `MigratedOnce`, `ClosedInOrder` (what was opened is closed in the
reverse order, also when a start fails) and `SessionForEvery`. Proof: `LiteInv`
(`HeldAt`: which resources are held at each step; `MigrationsInv`: a migration is
recorded in the transaction that executes it).

Bounds: two bots, one request, one event of others; two tabs, two looks, one
edit, one trouble; two servers, two boots, two sign-ins, one trouble; two windows, two
calls, two runtimes, one terminal, two acts; two migrations, two pages, three starts,
two releases, one crash.

Shown by the models, not by a run: the 4-second poll keeps the bot of its mount
(`SH` 149-153), saving or removing a routine and opening a computer set the panel on the
next bot (`SH` 869-873, 917-921, 304-305), a boot's end clears the overlay of the next
(`SH` 253), a send clears the draft before it is answered (`SH` 218); two studio saves
from stale lists lose the other's section (`SH` 1441, `CreativeRuntimeHost.tsx` 160), a
poll replaces a steering draft (`SteeringStudio.tsx` 85), an install whose answer is
lost leaves its row; `resetApiBase` swallows a failed deletion (`api.ts` 59-66) and a
boot's end takes down another's overlay (`computer.tsx` 75); two windows share the
trusted origin, terminals run on under the launcher, a double click starts two Lite
runtimes over one data directory, runs execute on after Lite stops, a crash while
the Lite secrets are written leaves a file that does not parse (`index.ts` 397-421).

## 14. Fairness

Only the run `liveness` assumes fairness. Runs and followers: sections 3 and 4. A
turn's agent and reader are weakly fair: their awaits return. Routines: a scan's
steps and the loss of a lock that is noticed, a handler's steps, the queue handing
out jobs, and a worker taking a run; requests, clocks and faults are not fair.
Processes: timers fire, a child that was sent SIGKILL exits, the processes it left
exit, Node then emits 'close'; SIGTERM, output and requests are not fair.

## 15. What is proved, what is checked only, what is not modelled

`PROJECT.json` lists the theorems. They hold for every value of the constants that
the named `ASSUME`s of the modules allow (finite sets where something is counted,
bounds in Nat, markers outside the sets they mark, one process per slot); TLC
evaluates these on each run. A few theorems assume more: `LostStaysLost` and
`PausesAnnounced` that slots have workerIds of their own, which `run_fence` shows
to be needed, `CallsStayOwn` that ids are plain (section 12), and `SettingsStay` and
`ClientStaysTyped` that typed crons are those of a clock (section 10). Each theorem
about a composition (`MCWork`, `MCClient`, `MCRunRoutine`) goes through a lemma that a
step of it is a step of one component and leaves the others alone. Induction over
numbers, where a proof needs it, is by a least counterexample (`LeastNat`, `LeastOf`,
from `WellFoundedInduction`): the last row of a batch, `LastRoutineOf`, is an example.

Every safety property and every type invariant that a passing run checks is stated by
a theorem. The types are seldom inductive as they stand; what they need beside the
safety invariants is of interest by itself: a slot's `aim` is a status that belongs in
the row (`AimsFit`), a handler about to enqueue a run has created it (`WakesTyped`), a
bot has one container at a time, a revision is at most the number of commits
(`WorkStaysTyped`), a thread's log has at most two events of a message and the deltas
and the end of each run (`ClientStaysTyped`). Routines are finite, as the rows of a
table are: the reconciler's cursor is the last row of a batch that is full.

Model-checked only:

- liveness: `QueuedIsPickedUp`, `LeasedIsLeft`, `EventuallyGiven`, `TurnEnds`,
  `RoutinesAreServed`, `CliSettles`; fairness and ENABLED are beyond the prover;
- the six violations, which are counterexamples.

Not modelled, or in part: see `PROJECT.json` "components". Files, rendering and
requests to services without state of their own here are left out; what such a call
can do to the state above (return, fail, take long) is in the actions that make it.
