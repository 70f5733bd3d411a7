# Paca: a verification project in TLA+

Paca is a project tracker whose tasks and chats can be worked on by AI agents. Users
reach it through `services/api` (Go, Postgres); `services/agent-runner` (Go) runs the
agents' turns in sandboxes or on a user's own machine; `services/realtime` (TypeScript)
pushes what happens to browsers. The services exchange messages through Valkey streams and
channels and share one Postgres database.

This directory holds TLA+ modules of the parts of Paca whose correctness depends on the
order in which several processes do things, TLC configurations that check them on small
instances, and proofs that TLAPS checks for instances of any size.

Contents: [Inventory](#inventory) - [Modules](#modules) - [Runs](#runs) -
[Findings](#findings) - [Proofs](#proofs) - [Not modelled](#not-modelled) - [Plan](#plan)

Abbreviations for sources: `runner/` is `src/services/agent-runner/`, `api/` is
`src/services/api/internal/`, `daemon/` is `src/apps/acp-bridge/internal/`.

## Inventory

### The path of a message

1. A user assigns a task to an agent, comments, or writes in a chat. `api/service/agent`
   creates or finds the conversation's row, looks at the agent's `ParallelismLimit` (and the
   occupancy of its environment folder), and either claims the row (`queued -> running`) and
   appends a trigger to a stream, or leaves a row in `agent_pending_triggers`.
2. `runner/internal/messaging` reads the trigger and gives it a goroutine, which waits for the
   conversation's lock and for one of the process's slots.
3. `runner/internal/handler` marks the row running, finds or starts a sandbox, has
   `runner/internal/executor` prompt the agent in it, stores the events it streams, and decides
   what becomes of the sandbox and of the row.
4. A terminal status goes to a status stream. `api/worker/agent_queue_consumer.go` reads it and
   dispatches the next pending row; `api/worker/automation_consumer.go` resumes the automations
   that waited for the conversation.
5. Meanwhile users stop and pause conversations, sandboxes grow idle and are reaped, processes
   are redeployed.

### Components modelled here

**Per-key lock** (`runner/internal/convlock`). State: a table from key to a mutex with a reference
count, under a lock of its own. Operations: `Lock` and the unlock function it returns. Used for
conversations (consumer and handler) and environments. Hard: the pointer a caller waits on outlives
the deletion of the table's entry. Correct when no two callers hold one key, and when the table
forgets keys nobody uses.

**Trigger consumer** (`runner/internal/messaging/consumer.go`). State: the conversation locks, a
semaphore of `MaxConcurrent` slots, the stream's unacknowledged messages. Operations: read, dispatch
to a goroutine, acknowledge after the handler returned nil. Hard: two queues in a row (lock, then
slot); a handler that blocks or fails; messages read and never acknowledged, which nothing ever reads
again. Correct when turns of one conversation never overlap, at most `MaxConcurrent` are handled, and
every trigger read is over with some day.

**Turn handler** (`runner/internal/handler`), with the **registry of in-flight turns**
(`internal/registry`), the **registry of kept chat sandboxes** (`internal/chatsandbox`) and the
**executor** (`internal/executor`). State: who is in flight and with what reason interrupted; which
sandbox is kept for which chat and when it was last used; the locks that guard reattachment; the
conversation's row and its events; the containers. Operations: a turn with the ways out of `Handle`;
stop and pause messages; heartbeats; the idle reaper; reconciliation at startup. Hard: a stop or the
reaper races a turn that reattaches to the same sandbox; a pause in the middle of a cold start; a
crash that leaves containers and rows behind. Correct when no working turn loses its sandbox, no
container is left without an owner or stopped twice, no row says running with nobody at work, and no
event of a turn is dropped because its index is taken.

**Agent queue** (`api/service/agent`, `api/repository/postgres/agent_repository.go`,
`api/worker/agent_queue_consumer.go`). State: the status of conversations, the pending rows, the limit,
the streams. Operations: assign, start a chat, resume, stop, change the limit, advance the queue on a
terminal status. Hard: no lock spans the steps of one request; several replicas; redelivered events;
an append that fails after the claim. Correct when the number of running conversations never exceeds
the limit, each conversation is dispatched once, none that says queued is without a record of it, none
that says running is without work, and one that waits is dispatched when its turn comes.

**Static environments** (`api/service/environment`, `api/worker/environment_command_consumer.go`,
`runner/internal/messaging/environment_consumer.go`, the attach in `runner/internal/executor`, the reaper and
the reconciliation in `runner/cmd/agent-runner/main.go`, `runner/internal/sandbox/docker/environment.go`).
State: a row with a status and the container's ID, a container and a volume, two streams of commands, an
advisory lock. Operations: create, start, stop, restart, delete, change ports; attach a conversation; reap when
idle; reconcile at boot. Hard: the api writes the row on its side of a command and the runner on its own; a
command is executed again after a crash, or its reply is late; the container is replaced while somebody has its
ID in hand. Correct when no row stays in a status no request accepts, a conversation's container is not
replaced under it, and the row names the container.

**Automation engine and its schedulers** (`api/worker/automation_consumer.go`, `wait_scheduler.go`,
`due_date_scheduler.go`, `cron_scheduler.go`, `api/repository/postgres/automation_repository.go`). State: runs
with their steps, waits for conversations, delays, the occurrences already fired; leases in Valkey. Operations:
an event or an occurrence opens a run and walks a graph; a walk pauses; the end of a conversation or of a delay
resumes it; whoever leaves no pause behind closes the run. Hard: the ends of sibling conversations reach
different replicas at the same moment; leases that run out in a long tick; steps that are two statements;
messages read again; an engine that hears of its own work. Correct when no node is executed twice, none before
those it waits for, no run is left paused with nothing to resume it, and every run is closed.

**ACP bridge** (`runner/internal/acpbridge`) and **daemon** (`daemon/bridge`, `daemon/runner`,
`daemon/acpclient`). State: sessions of each replica and a presence key with a TTL; generations and watchdogs of
dispatched turns; on the user's machine the connection, a queue of messages to send, and sessions with at most
one turn each. Operations: register, evict, unregister, dispatch, report, interrupt, sweep. Hard: a daemon that
reconnects while its old session goes down; Pub/Sub, which drops what nobody listens to; a watchdog against a
late report and against the next message; a turn interrupted while its provider is being spawned, hangs or is
dead. Correct when a replaced session leaves nothing behind, the presence key says what is so, a running turn
can be found and stopped, and every row comes to its end.

### Components planned

| Component | State | Operations | What is hard | Correct when |
|---|---|---|---|---|
| folder queue (`agent_service.go`, `agent_repository.go`) | running conversations per environment folder, pending rows | `checkFolderCapacity`, `AdvanceQueue` with skipped rows, `AdvanceFolderQueue`, `requeueSkipped` | two agents share a folder; the folder is counted, never verified at the claim; skipped rows are invisible meanwhile | one conversation per folder; no row lost; a free folder is used |
| refresh tokens (`auth_service.go`) | token families | rotate, reuse detection, revoke | two tabs present one token | a reused token ends its family, an honest client is not logged out |
| realtime (`src/services/realtime/src`) | rooms of each socket, permissions | subscribe, publish, resynchronise | permissions change during a pass | nobody stays in a room without permission |
| migrations (`migrations.go`) | ledger, advisory lock | run | a crash between commit and ledger | each file's effect once, in order |
| caches (`cached_service.go`) | cached reads | read through, invalidate | a slow read fills the cache after the invalidation | staleness ends |
| task order (`task_service.go`, `view_service.go`) | positions | move, rebalance | concurrent moves, no room between two positions | a total order, as the last move asked |
| iam evaluation (`platform/authz/iam/eval.go`) | none | evaluate | deny against allow, conditions, wildcards | agrees with its definition |

`PROJECT.json` lists every component with its sources, those left out with the reason, and under
`hazards` the lines where each of these difficulties bites.

### How the components interact

The api and the runner share rows of Postgres with no lock between them: each writes
`agent_conversations.status` unconditionally or by compare-and-set, and the other sees it. Triggers go
one way and terminal statuses the other through streams with consumer groups; stops and pauses are
triggers that wait for no lock. Inside the runner goroutines meet in the two registries and in the
locks. Inside the api replicas meet only in Postgres and in the consumer groups. Environments add a request and
reply over two streams and an advisory lock, which orders what the runner does with a container and nothing
of what the api writes. Daemons hang on one WebSocket to one replica of the runner; everything another replica
has for them goes through Pub/Sub.

## Modules

| Module | What it is |
|---|---|
| `KeyedMutex` | what users of `convlock` may assume: an owner per key |
| `ConvLock` | `convlock.go` as it is: table, counters, mutexes; implements `KeyedMutex` |
| `ConversationTurns` | consumer, handler, registries, executor, stops, reaper, crash and reconciliation of one runner replica |
| `AgentQueue` | requests, replicas of the queue consumer and a reduced runner, for one agent |
| `Environments` | one static environment: requests, commands, attaches, reaper, reconciliation, Docker |
| `Automation` | one automation: replicas of the consumer, of the wait scheduler and of a clock |
| `BridgeRegistry` | the connections of one ACP agent over the replicas of the runner |
| `AcpTurns` | extends `BridgeRegistry` with dispatch, watchdogs and the daemon's sessions and turns |
| `MC...` | symmetry sets and settings for TLC; one cfg per run |
| `...Proofs` | theorems and their proofs, a module for each of the seven above and `AutomationWalksProofs`, which follows the walks of `Automation` |

`ConversationTurns` uses locks as `KeyedMutex` promises them, so the reference-counted table needs no
second look there. `AgentQueue` sees of a turn that it begins, ends, and tells how, in separate steps;
`ConversationTurns` sees of the api that it claims, publishes, stops and pauses. `Automation` sees of a
conversation that it starts, ends or is stopped, and of the queue nothing: a conversation that waits is one that
has not ended.

**Settings.** `Environments`, `Automation` and `BridgeRegistry` choose at the start a record `setting` from the
constant `Settings`: which actors there are, what may be asked for, and how many faults of which kind may come.
One run then covers several small systems, each with the actors of one race and the faults that meet them;
all of them at once would be too many states and would show no other race.

**Mutants.** Definitions whose comment says `MUTANT of X` are broken versions of `X`, each a plausible
slip in the code that `X` models. They are used by no specification. `PROJECT.json` says which property
each of them breaks when it takes the place of `X`: this shows that the property depends on the code.

### ConvLock

`Lock` is `Create` or `Join` (the part under the table's lock) followed by `Acquire`; the unlock function
is `Unlock` followed by `Leave`. `entry` is the local pointer `e` of the closure. `Unreferenced` is the
allocator: a new mutex is not one somebody still has a pointer to.

### ConversationTurns

Time of a trigger (`tpc`):

    unused -> claimed -> sent -> waiting -> locked -> admitted -> marked -> registering
      (api)    (api)   (stream)  (goroutine, lock, slot)            (under resumeLock)
    -> registered -> indexed -> starting -> [connecting ->] prompting -> returned
    -> keeping | tearing [-> stopping] -> writing -> leaving -> releasing -> done | lost

Each arrow is one step because another goroutine can see or change something between it and the next: a
statement of Postgres, a call of the sandbox backend, a critical section of a registry. `lost` is a
trigger that stays unacknowledged: nothing reads it again (`consumer.go` reads with `>` only, and
`handler.go` says that no `XCLAIM` exists).

- `Handle`'s exits: a trigger the gate does not let run here, or whose agent `dispatchACP` does not find
  (`Drop`: acknowledged, and the row the api has set to running stays so); an error before the row is marked
  (`HandleFails`); skills that do not load (`SkillsFail`, then `RecordFailure`); an index that cannot be read
  (`ReadIndexFails`); and after `Run` success (`EndTurn`), cancellation with its reason (`EndCancelled`), a provider
  error a chat may retry and any other error (`EndFailed`). Each continues as the code does, in the code's order.
- Each write and each call of Docker or of a peer has its failing variant beside it (`...Fails`), which does what the
  code does with the error: return it (the trigger stays unacknowledged), or log it and go on, the row then being as it was.
- A turn whose goroutine is over keeps nothing but `tend`, and that only if it ended without a verdict (`NoVerdict`).
- `resumeOwner` is `resumeLocks`: `Register` and `GetKept` are the two halves of a turn's critical section,
  `CheckRegistered` and `Pop` the two halves of `TeardownPausedChatSandbox`'s.
- A sandbox is named after the turn that started it.
- `Crash` forgets everything in memory and keeps rows, events, stream and containers. `PromptPanics` and
  `StopPanics` are nil dereferences that nothing recovers from and have the same effect; they are
  reachable, because a pause that cancels a cold start keeps a handle without a client.
- `ListOrphans` and `FailOrphan` are `reconcileRunningConversationsOnStartup`. Which rows are within the
  grace period is a choice, except that rows touched a moment ago always are. `spared` is a history variable: the rows it passed
  over because of the grace period, an environment, a live container or a failing call.

What is abstracted. Messages have no content. Of the events of a turn, the user's message and the closing
`turn_end` stand for all that are inserted at the turn's cached index: those in between use the same
counter in the same goroutine. Time appears as "idle for longer than the timeout" or not. One replica of
the runner. The llm executor only: `AcpTurns` has the acp conversations, and the registry of provider clients is left out.

### AgentQueue

`pc` of a request or a replica says what it does next; every step is one statement or transaction of
Postgres or one command of Valkey.

| Code | Steps |
|---|---|
| `dispatchOrEnqueue` | `Assign`, `Check`, then `deliverTrigger` |
| `StartChatSession` | `Start`, `Create`, then `deliverTrigger` |
| `SendChatMessage` and its like | `Resume`, `ClaimResume`, then publish or enqueue |
| `deliverTrigger`, `dispatchPendingTrigger` | `Claim`, `Publish`, `Enqueue`, `Restore` |
| `revertFailedDispatch` | `PublishFails`, `Revert`, `Enqueue` |
| `AdvanceQueue` | `Count`, then `Dequeue` and the steps above while there is room |
| `AgentQueueConsumer` | `Receive`, `Replay` (only after a restart), `Ack` |
| `stopConversation` | `Stop`, `WriteStopped`, `Unqueue`, `Announce` |
| `UpdateAgent` | `Update`, then `AdvanceQueue` |

`FailingSteps` names the steps whose call may return an error, `MaxErrors` bounds how many do. A failing
request is over, a failing replica leaves its event unacknowledged. `Crash` ends a request or restarts a
replica under the same consumer name, which then replays what it had not acknowledged.

What is abstracted. One agent. No environment folders. "finished" stands for "failed" too. An append that
fails did not take place. The stop message sent to a runner that may have a turn has no action of its own:
a turn may end at any time.

### Environments

An actor is one goroutine: a request to the api (`Calls`), a replica of `EnvironmentCommandConsumer`, a slot of the
runner's consumer (`Jobs`), a conversation that attaches (`Turns`), the idle reaper, a booting runner. `pc` names
what it does next, `arg` the `backend_ref` it has in hand, as it read it or as the runner replied.

| Code | Steps |
|---|---|
| `CreateEnvironment`, `StartEnvironment`, `StopEnvironment` | `Create`, or `Ask` and `Mark`; then `Append` or `AppendFails` |
| `RestartEnvironment` | `Restart`, then the runner is called from the request |
| `DeleteEnvironment` | `Delete`, `RemoveContainer`, `RemoveVolume`, `SoftDelete` |
| `ExecuteCreate`, `ExecuteStart`, `ExecuteStop` | `Receive`, `Check`, `Call` or `StopContainer`, then `Persist` and `Touch`, `WriteStopped` or `Fail` |
| `callEnvironmentCommand` and its reply | `Call`, `GiveUp`; `Finish` and `Break` of the job |
| `StartEnvironmentByID`, `StartEnvironment` of the manager | `Lock`, `Reread`, `StartContainer`, `ClearName`, `Build` |
| `coldStartEnvironment` | `Attach`, `Lock`, `RereadAttach`, the manager's steps, `Claim`, `Touch`, `EndTurn` |
| `reconcileOneEnvironment` | `Reconcile`, `TryLock`, `Reread`, the manager's steps, `Claim` |
| `reapIdleEnvironments` | `List`, `ClaimStop`, `Probe`, `StopContainer`, `WriteStopped`, or `Spare`, `Touch` |
| the same calls, when they return an error | the action's name with `Fails`; `Lose` collects those after which nobody writes down what the step was for |

Every read, write and command of these functions has its failing step, also where the code discards the error
(`_ = s.setStatus`) or only logs it. `StartFails` is what Docker refuses at any step of a start or a creation. `unheeded` is a history variable: it becomes TRUE when a step fails, or an actor
dies, that was to write how a command ended. `Crash` ends one goroutine; Postgres drops the advisory lock of its connection, and a replica of the api reads its
command again. `Vanish` is `docker rm` by hand. What is abstracted: of a container the ID, whether it runs and the
variables it was created with; time is `Quiet` (idle for the timeout) and the choice of `GiveUp`; folders, ssh keys,
slugs, port numbers, provider credentials and Kubernetes have no state here.

### Automation

The graph is data: kinds of nodes and their branches. A thread that walks keeps the nodes still to visit in `todo`,
which is the recursion of `walker.walk` unrolled: depth first, each node once per walk.

| Code | Steps |
|---|---|
| `run`, `dispatchMessages`, `ack` | `Take`, `Ack` |
| `handle`, `handleExternalTrigger`, `handleSprintActivity`, `processEvent` | `Handle`, `HandleExternal`, `HandleSprint`, `Fires` |
| `executeRun`, `runGraphWalk` | `Open`, the walk, `EndWalk` |
| `walkCondition`, `walkWait` | `Look`; then `Record` or `FailNode`; behind a wait's step `CreateDelay` |
| `walkAction` | `Apply`, or `Ask` and `StartConversation`; then `Record` or `FailNode`; behind an agent's step `CreateWait` |
| `handleAgentConversationStatus`, `resumeWalk` | `Find`, `Note`, `Resolve`, `Check`, the walk; `Abandon` when a call fails |
| `finalizeRunIfDone` | `CountWaits`, `CountDelays`, `Judge`, `Close`, `FailToClose` |
| `WaitScheduler.tick` | `Lead`, `ListDue`, then `Renew`, `Revive`, `Resume`, the walk, `Clear`, finalization for each delay; `Yield` |
| `DueDateScheduler.tick`, `CronScheduler.tick` | `LeadClock`, `ListFires`, `RecordFire`, `Open` ..., `YieldClock` |
| `Activate` and `Deactivate`, `RemoveNode`, `stopConversation` | `Toggle`, `RemoveNode`, `StopConversation` |

What a node does and the row of its step are two steps of the thread (`runAction`, `recordStep`), between which it may die. The
row is written as well as it can be: `Record` and `FailNode` have a variant in which its error is only logged (`"step"` of a
setting's `failing`), and the walk goes on. Two fields of a run are history that no row holds. `visits` counts how often walks have come
by a node, whether its step was recorded or not; `lost` has the nodes whose step the walk of a delay's resumption did not
record, because the write failed or the scheduler died first. Only there a missing row matters: that walk is repeated if the
delay's row remains, and it knows the nodes before it by their rows. `Check` may fail to list the steps (`"list"`); then the run is
finalized without what is behind the node.

`Crash` forgets what a thread had in hand; a consumer reads its unacknowledged messages again at its next start.
`Lapse` lets the TTL of a lock run out. What is abstracted: the evaluation of conditions is the choice of a branch,
an action is the messages it publishes, time is what is due, and cron grids are occurrences numbered in order.

### BridgeRegistry and AcpTurns

A connection is the goroutine of `handleWS` with the `session_id` that `Register` gives it and its two goroutines.
`Register` is `Lock`, `CheckPresence`, `SetPresence`, `Swap`, `Supersede`, `Await`, `Start`, `Ready`, `Announce`;
`Unregister` is `Hangup`, `Remove`, `Drain`, `ClearPresence`; `subscribeLoop` is `Subscribe`, `LoseSubscription`,
`Exit`; `EvictAll` is the api's request after a token was regenerated; `Lapse` the TTL of the presence key.

`AcpTurns` adds, on the runner, `DispatchTrigger` (`Look`, `Mark`, `Record`, `Publish`, `Ask`, `FailOffline`) with the
watchdog (`Wake`, `FailIfNotTerminal`) and the reports (`Relay`); on the wire, frames in each direction of each
connection, lost when it breaks; in the daemon, the connection (`Connect`, `SayHello`, `ReceiveAck`, `SendUp`,
`SendEarly`) and the sessions: `Begin` is `StartTurn`, `Ensure` to `Finish` are `runTurn`, `Interrupt`, `GraceOver`, `Kill` and
`KillLate` are a stop and its grace period, `Sweep` evicts idle sessions. A session is shared by the
conversations with one key (`sessionKeyFor`).

A watchdog's look at the generation and its update of the row are two steps, and a dispatch may come between them; the field `seen`
of a watchdog remembers how many dispatches had been counted at its look. Calls of the store that fail are `LookFails`,
`DispatchFails`, `PassOnFails`, `RelayFails` and `WatchdogFails`. `Begin` and `Sweep` are one step each: `StartTurn` takes the session's
lock before it gives up `r.mu`, and `evictIdle` does with `TryLock` what it does to a session; a change of that order is not
something these properties would notice. The agent is one the runner's gate lets pass and `FindACPByID` finds; for the other
triggers see `ConversationTurns`. What is abstracted: `handleEventMessage` and all texts, authentication and the
limit on handshakes, realtime and queue status events, usage.

## Runs

Every cfg says `CHECK_DEADLOCK FALSE` except `MCConvLock.cfg`: requests, messages and failures are finite in
number, so these systems stop. That no turn, row or run is stuck is what the liveness properties show.

| Run | Shows | Size |
|---|---|---|
| `conv_lock` | mutual exclusion, no entry without a user, the inductive invariant, the refinement to `KeyedMutex`, no deadlock | 1,507 states |
| `chat_turns` | two messages to a chat and to an environment-backed conversation, two stops or pauses and the reaper: no sandbox is taken from a working turn (`SandboxInUseStaysUp`), each has exactly one owner (`OneOwner`), no event index is stale (`CachedIndexFresh`) | 1.85 million |
| `turns_live` | two turns of a chat and an environment-backed conversation share one slot while a call fails and the process dies and restarts: the limit holds, a row says running only with a turn or reconciliation to come or after an exit that writes no verdict (`RunningRowHasTurn`), the inductive invariant survives, every trigger is handled or lost with the process, an idle sandbox is reaped or used | 195 thousand |
| `dispatch` | three requests (task, chat, raised limit) and two replicas with a failing call and a crash: `LimitRespected`, `QueuedIsRecorded`, the inductive invariant | 218 thousand |
| `slots` | with stops, resumes and forced messages and a failing publish or status event: `RunningIsWork`, no slot leaks | 93 thousand |
| `queue_live` | three requests, which assign, resume or force, for three conversations: a conversation's trigger is nowhere twice (`DispatchedOnce`), and a row that waits while a conversation works is dispatched after it | 19 thousand |
| `environments` | eleven settings: commands with deaths, failing calls and the reaper; attaches with a boot, a delete, a vanished container, failing calls. A row is stuck in a transitional status only after one of the listed losses (`NotStranded`, `Settles`), no container is removed under a conversation (`SparesWorkers`), the row names the container (`RowNamesContainer`) | 223 thousand |
| `automation` | twenty-one settings of six graphs with two replicas of what handles their events: `ExecutedOnce`, `AllSiblingsFirst`, `NothingStranded`, `OneResumer`, `FiresOnceInTime`, `NoSelfTrigger`, and every run is closed (`RunsSettle`) | 172 thousand |
| `acp` | five settings of sessions and ten of turns: nothing of a replaced session is left (`NoOrphan`), the registry settles (`Converges`), a running turn can be found (`RunsLinked`), a watchdog fails a later turn only if it had made its check before that turn was dispatched (`WatchdogSpares`), rows and interrupted turns end (`TurnsEnd`) | 223 thousand |
| `lost_wakeup`, `sprint_loop`, `presence` | the findings below | small |

### Bounds, and why they are enough

- *Two turns, two conversations.* The races are between a turn and a stop, the reaper or the next turn of
  the same conversation. A second conversation shares slots with the first and nothing else, and being of
  another kind it takes the other paths through `Handle`: only an environment-backed one can be sent a message while its last
  turn is still at work (after a stop). A task's conversation is a chat that never pauses, whose paths both have between them.
- *Two stops or pauses and the reaper.* One of them can be in its critical section while another waits for
  the lock or has just interrupted the turn: a reason can be overwritten and a sandbox popped twice.
- *One crash, one failing call.* The interesting case is a failure that meets a step of somebody else; a
  second failure begins from a state the first has left, and the theorems hold for any number.
- *Three callers of the lock.* One holds, one waits on the old entry, one arrives: the shape of the race
  that reference counts prevent.
- *Three requests, two replicas, limit one, raised to two.* Two requests compete for the slot while the third
  changes it, and two replicas handle the events of two conversations. Three conversations are enough for
  one that works, one in a row and one in somebody's hands.
- *Environments: three requests and a reaper, or two requests, two attaches and a boot; four containers.* A row is stranded
  by a request that marks it after another's command was executed; a container is lost under a conversation by one
  other actor with an old ID. Every request that replaces a container has one `Lifespan` to spend.
- *Automation: graphs of two to four nodes, fan-outs of two, two replicas, at most two lapses.* The races are between the
  ends of two siblings, between an end and a delay of one run, and between a leader and its successor. A join and a
  condition behind a pause are the shapes a resumption can get wrong; longer chains repeat them.
- *Sessions: an old one and two that come, one or two replicas.* One goes down while one comes up and a third waits
  for the agent's lock. *Turns: one session key, two conversations, two messages, two controls, one fault.* A
  turn, the turn after it, an interrupt of either, and a report that is late or lost.

Symmetry is used for messages, requests and replicas, in runs without liveness properties of the first three
modules; the other runs have none.

### Conditions of the properties

`OneOwner` is claimed while nothing failed: after a crash or a failed call the code has reconciliation and logging, not
ownership. `RunningRowHasTurn` has no such condition. It names what the code lets a running row be without a turn for: the
exits of `NoVerdict` (the gate, an error returned, a last write that fails), reconciliation still to come, and rows it
passed over (`spared`). So it says that these are all. `RunningIsWork` and `QueuedIsRecorded` are claimed while no
process died. `DispatchedOnce` counts a thread as a place of a trigger only while it carries the
trigger (`Carrying`), not while it looks whether to take it. `dispatch` has no stops and no resumes: with them the limit can be exceeded (a stop frees a slot
whose trigger the runner still handles; a resume claims without a second look at the limit).

`NotStranded` and `Settles` name what strands a row (`unheeded`): a replica that cannot read the row of its command, for the command is
acknowledged all the same; an error of the write of "error", which every caller discards or logs; an error of the reaper's write of
"stopped" or of the claim it gives back; a restart in `ExecuteStart` that cannot decrypt the secret; and the death of a request or a
reaper between its status and the end of its work. So they say that these are all: any other call may fail, and any replica, job,
turn or boot may die.

`RowNamesContainer` and `SparesWorkers` are claimed in `Sheltered` settings: nobody starts, restarts or stops the environment beside
the attaches (a start job gives up the lock before the api has written the new ID, and an attach whose claim loses to a stop does not
write its own), no turn, boot or replica dies between the container and the row, and neither a claim nor the second look at the row fails
(the first loses the new ID, and after the second a boot goes on with an old one). In each of these cases the next attach heals a
container somebody works in. `SparesWorkers` compares conversations that want the same variables; others replace the container on purpose.

`ExecutedOnce` and `AllSiblingsFirst` leave out settings where a conversation ends before the row that waits for it is
written (`early`) and where a tick outlasts its lease (`slow`), `OneResumer` and `FiresOnceInTime` the second of them.
`ExecutedOnce` speaks of the nodes of one origin, along however many paths: those that only the first walk of a run comes by
(`ByTrigger`), those that only resumptions of delays come by (`ByDelay`), and those that only walks behind one agent's node come by
(`ByAgent`), where that node is itself of the first two kinds. Where origins meet, as behind an agent and a delay that lead to one action,
the code executes the action once for each. And it excepts the nodes that are `Forgotten`, whose step is missing though the walk of a
delay's resumption has come by them, and those behind an agent's node that is: `call_api` and its like are executed again when that walk
is repeated. No other crash or error repeats a node. `AllSiblingsFirst` also leaves out crashes, and rows of waits and steps that
could not be written. `NothingStranded` and `RunsSettle` leave out what loses work by
design (`NothingLoses`): crashes, removed nodes, errors the code only logs, which the failed list of steps in `resumeWalk` is one of. The lists
below say what happens then.

`TurnsEnd` asks that a dispatched turn has its watchdog (`Watched`): a call that fails and a replica that dies leave a
row without one. `Converges` is about what is so when connections have stopped coming.

### Fairness

`ConversationTurns`: weak fairness of the api's and of reconciliation's steps, strong fairness of each trigger's
goroutine, each control message's goroutine and the reaper. Strong, because a goroutine waiting for
`sync.Mutex` or for the semaphore channel is served although others come and go: the mutex switches to
handing over in arrival order after a waiter has waited a millisecond, and senders blocked on a channel are a
queue. `Run` has a timeout, so a turn that prompts ends. `AgentQueue`: weak fairness of every thread's and
replica's next step and of the runner; a turn has a timeout. `Environments`: weak fairness of whoever is at work;
no user has to ask and no conversation has to come. `Automation`: weak fairness of each thread and of the ends of
conversations and delays, and locks in Valkey lapse. `AcpTurns`: weak fairness of the goroutines of the
runner, of the watchdogs' and grace periods' timers, of what a turn does after it was interrupted, of noticing a
dead socket and of the presence key's TTL. A daemon need not dial again and a provider need not answer. Nowhere is
anything assumed of users, of failures, or of the teardown of a paused sandbox, which heartbeats can put off
for ever.

## Findings

Each is a sequence of steps TLC finds, against a sentence of the code base.

1. **`lost_wakeup`**: a request counts the running conversations, the last one ends and its event finds no row, and
   then the request inserts its row: nothing dispatches it until another conversation of the agent ends.
   `agent_queue_consumer.go` says that every way capacity can increase is covered without a poller.
2. **`sprint_loop`**: `handleSprintActivity` looks at no origin and sprint events carry none, so an automation that
   completes a sprint when one starts and starts one when one is completed runs for ever.
   `automation_consumer.go:453` says that an automation can never trigger another automation.
3. **`presence`**: `Unregister` removes its session, waits for its goroutines and then deletes the presence key without
   looking again. A daemon that has registered in between is connected and shown offline until it reconnects: a
   heartbeat extends a key and does not create one. `registry.go:270` says that a stale connection's disconnect
   must not clear the newer session's presence.

The models show further behaviours, and some of them differ from a comment too.

- A pause that cancels a cold start keeps a `State` with a handle and no client, and the next message prompts a nil
  client, although `chatsandbox/registry.go:23` says the client is "already-Initialize()'d".
- `TeardownPausedChatSandbox` writes "stopped" after it released the lock under which it decided; the next message's
  turn may be running by then, although `handler.go:948` says that at most one of the two wins.
- A row claimed by the api whose trigger still waits in the stream has no container; a runner that was down for longer
  than the grace period fails it and then runs it, although `main.go:836` calls what it fails orphans.
- `ClaimQueuedForDispatch` verifies the limit whatever `on_busy` was, so a chat opened with `on_busy=force` on a
  busy agent is queued, although `entity.go` says that force skips the check and dispatches at once.

A maintainer should know of these as well, which contradict no document. Turns and queue:

- The reaper collects the idle conversations once and tears them down one after the other; a heartbeat that arrives
  in between does not save a sandbox later in the list.
- A trigger read by a process that dies, or whose handler returns an error, is never read again.
- A row whose turn died is failed at startup only if it is older than the grace period (five minutes) by then; a
  process that restarts faster leaves it running, and holding a slot, until the next restart.
- The last of a stop and a pause decides what becomes of the sandbox: a pause after a stop keeps it.
- `dispatchPendingTrigger` has deleted the pending row before it reads the conversation; when that, or the claim,
  returns an error, the row is gone, and only the event redelivered at the replica's next start tries again.
- A resume that overtakes the second half of a stop loses its new pending row to the stop's delete.
- The runner marks a row running without looking at it: a trigger of a conversation stopped in the meantime is
  worked on, on top of the limit.
- `AgentQueueConsumer` handles unacknowledged events at start only, and only under the same consumer name.
- With two replicas one can hold the only pending row, at capacity, while the other handles the event that frees the
  slot; the row then waits for a later event, like in `lost_wakeup`. `queue_live` has one replica.

Environments:

- An error of `FindEnvironmentByID` in `ExecuteCreate`, `ExecuteStart` or `ExecuteStop` is returned without a status, and `handle`
  acknowledges the command whatever came of it: the row stays "creating", "starting" or "stopping". So it does when the write of "error"
  fails, whose own error is discarded, and when `restartEnvironmentPorts`, called by `ExecuteStart` for an environment with changed
  ports, returns an error of `decryptSecret`.
- The reaper only logs an error of its write of "stopped" and of the write that gives a claim back: "stopping" stays.
- The reaper looks at `last_active_at`, not at who is attached: a turn longer than the timeout loses its container.
- A runner that dies between the reaper's claim and its last write leaves "stopping", and a request to the api that dies
  between its write of the status and its append leaves "creating", "starting" or "stopping" for good.
- A turn or a boot that dies between the container it created and its claim leaves the row with the ID of one that is gone;
  the next attach heals once more. A replica that dies while its create job runs lets the job make a container for no row.
- `ChangePorts` between a restart's reading of the ports and its clearing of `ports_pending_restart` is forgotten.
- A delete looks at no status: beside an attach or a start it leaves a container or a volume without a row.
- An attach that healed the container and loses its claim to a stop does not write the new ID; the next attach starts one
  that no longer exists and heals again.

Automations:

- A conversation that ends before the row that waits for it is written finds nothing, and its run stays paused; a fan-out
  writes its rows one after the other, so the first may be taken for the last.
- `finalizeRunIfDone` counts waits and delays in two statements, and two finalizers write one after the other: the
  second may turn "failed" into "completed".
- Two branches that resume on two replicas and meet in one node execute it twice.
- A crash between `DeletePendingAgentWaitAndCountRemaining` and the walk, or between `DeletePendingDelay` and the
  finalization, leaves a run open; a crash in a walk gives a second run on redelivery, and the first stays "running".
- A scheduler that dies between `runAction` and `recordStep`, or whose `recordStep` fails and whose `DeletePendingDelay` fails as well,
  executes the action again at the next tick: a second task created, a second call of an API.
- When `ListRunStepsByRun` fails after the last wait was deleted, `resumeWalk` logs it and returns: what follows the node is never
  walked and the run ends "completed", although the comment above `resumeWalk` says that its errors are recorded as failed run steps.
- `executeRun`'s errors are acknowledged all the same, except for webhooks: the event is not tried again.
- `RemoveNode` deletes the pauses at the node with it, and nobody closes their run.
- Two due-date ticks that overlap both start a run, since `RecordDueDateFire` looks at nothing; the comment at
  `due_date_scheduler.go:136` expects the record to prevent it. The lease does, as long as a tick is over in time.
- Two predecessors that are done together are each seen with the other one done, and the trigger fires twice.

ACP:

- `registerLocks` is per process: two sessions of an agent that come to two replicas at once can both stay.
- A `start_turn` that arrives before `hello_ack` makes the daemon drop the connection and the turn; the sender may in turn
  send before its hello, which the server refuses and the report is lost.
- Frames in either direction are lost with the connection; a lost report ends in the watchdog's "failed".
- An interrupt of one conversation cancels the turn of another that shares its session; a grace period that ends late
  kills the client of the next turn; a dead provider stays the session's client, and every turn
  fails on it, until the grace period of an interrupt or the idle sweep closes it.
- A late report overwrites "stopped" and "failed"; a force-kill after a stop may be reported as "failed".
- `dispatchGen` is per process, and watchdogs die with it; an error of `DispatchTrigger` or of
  the watchdog's update leaves the row running without one.
- A watchdog of an earlier turn may fail a conversation between the api's claim and the next dispatch's `Store`. And one that has
  passed its check but not yet updated the row fails the turn of the dispatch that comes in between: its row and slot are given up
  while the daemon works, although `dispatch.go:36` says that it cannot fail a conversation the user has since resumed.
- A message sent right after the turn's end is refused as busy while the daemon still finishes it.

## Proofs

TLAPS checks about 14,500 obligations. The theorems say `Spec => []P`, a refinement, or that under a named hypothesis, for any
values of the constants that satisfy the named assumptions of the modules: the sets are disjoint where the code's types make
them so, what is counted (callers, turns, conversations, the messages and tasks of a setting) is finite, limits and bounds are
natural numbers, and a setting has the fields and actors its module says (`SettingsAssumption`, `KeysAssumption`,
`RolesAssumption`, `ProfileAssumption`). `GraphsAssumption` says what the tables of automations guarantee: edges lead to nodes (a foreign key),
only `walkCondition` chooses between branches while the other kinds follow every edge, and an event that is told has a trigger (the others
find no automation, so nothing begins). A graph may have any number of nodes, joins and cycles. No bound of the runs is assumed: any number of threads, replicas, conversations,
connections and nodes, any graph, any number of crashes, errors and lapses.

Each component has one inductive invariant, in its own module, so that TLC checks it on small instances before it is
proved. Two kinds of lemma lead to its preservation: which few actions write which variable and how (frames), and one lemma for each
part of the invariant, with a step for each action or group of actions that can disturb it.

**`ConvLockProofs`.** `IInv` says that everyone inside `Lock ... unlock` works with the mutex the table has for its key
(`PointersAgree`), that different keys have different mutexes (`KeysApart`), and that counters are exact
(`CountsExact`). Mutual exclusion is not inductive by itself: the last caller's `Leave` deletes an entry, and only
the exact counter shows that nobody is left who works with it. From `IInv` follow `LockExcludes`, `LockTypeCorrect`,
`LockTableIsTrimmed` and, with the owner of a key read off the callers' positions, `ConvLockImplementsKeyedMutex`: `Acquire`
is `Take`, `Unlock` is `Release`, `Create` and `Join` are `Ask`, `Leave` is a stutter.

**`ConversationTurnsProofs`.** `IInv` has layers, each resting on the ones before it, each with its lemma:
types and positions; locks (a turn past the lock owns it, so turns of a conversation are serialized; the entry in the in-flight
registry is the turn's at work; whoever pops found nobody registered and still holds the lock); slots; sandboxes (a handle
names a container of its own conversation; a kept sandbox is up; one taken to be stopped has no other user); custody (what is kept
is what the last turn left, what is popped is popped once); events; that no running row is without a turn except as `RunningRowHasTurn` says; and,
while nothing failed, that no container is without an owner.
- `SandboxSafe` needs the types, the locks and the sandboxes: a stop takes a container away only if it popped it, what was popped
  nobody has a handle to, and it was popped under a lock that keeps a turn from fetching it meanwhile.
- `OneResponsible` adds custody: two owners of one container would be two turns that use it, which the lock excludes, two
  entries, which name containers of their own conversations, or two stops that popped it, and an entry is popped once.
- `NoEventLost` needs that turns are serialized; `ConcurrencyBounded` counts the slots; `RowsHaveTurns` is a part of `IInv`.

**`AgentQueueProofs`.** `IInv` says where a claimed slot is: with one thread, one trigger or one turn (`OneHolder`), never two; and
where a trigger is that is not claimed yet: in one row or with one thread (`OnePlace`).
- `LimitHolds`, if nobody stops or resumes and the limit is only raised: of all steps only `Claim` adds a running conversation
  (`OnlyClaimAdds`; `RunnerStart` finds it running, by `OneHolder`), and it looks at the limit in the same transaction.
- `DispatchedAtMostOnce`, if nobody stops: resumes are allowed, since `ClaimConversationStatus` compares and sets. The hypothesis is
  needed: an assignment that has found no capacity and is about to look again, is stopped and then resumed, is in two hands.
- `NoSlotLost`, while no process dies, if the steps that put things right (`Mending`) do not fail themselves.
- `NobodyForgotten`, under the same conditions and without stops.

**`EnvironmentsProofs`.** Three invariants, one on top of the other.
- `ActorsInv`, without a hypothesis: every actor is at a step of its own function with a command that leads there (`Stations`), a job
  replies to its own caller (`Served`), the advisory lock is with whoever is between its `Lock` and the end (`LockHeld`), and a turn
  works in a container of its variables (`Housed`).
- `AnswersInv`, without a hypothesis: somebody is there who will move a transitional status on (`Answered`), or `unheeded`. Crashes
  of the replicas and of jobs do not touch it: the command is read again. `EnvironmentsNotStranded`.
- `IInv`: behind the start lock, what its holder knows of the row and the container is so (`HolderKnows`), the one creation is in one
  hand (`OneCreation`), and the row names the container or the holder of the lock is about to write it (`RowAgrees`), in `Sheltered`
  settings. `RowsNameContainers`, `WorkersAreSpared`.

**`BridgeRegistryProofs`** and **`AcpTurnsProofs`.** `RegistryInv` follows a connection from the dial to the end: before it is in the map it
has no goroutines (`FreshUntouched`); while its `Register` runs it stays in the map, for the agent's lock keeps other registrations
out (`InsertedStays`); what it replaces is another connection of that replica (`ReplacedIsOther`); and what is in the map has been put
there by a registration that nobody removed (`EntriesStand`). `NothingOrphaned` is then inductive. Its lemmas speak of what may
happen to the registry in one step, and not of `Next`, so that `AcpTurnsProofs` proves `NothingOrphanedByTurns` of the composed
specification with them: there daemons break connections and replicas die. Its own `IInv` adds that a connection the daemon
has not used yet is nobody's (`LinkIsFresh`) and that a dispatch has a generation newer than every older watchdog's until its own is
armed (`DispatchIsNewest`, `LatestIsNewest`, `CheckedWasNewest`), from which `WatchdogsSpare`, an action property, and `RunningTurnsFound`.

**`AutomationProofs`.** `IInv` says at which steps each kind of thread may be (`Placed`), that rows name rows (`Rows`, `Jobs`), and two things
about the schedulers. While no tick outlasts its lease, a replica that resumes a delay holds `lease.wait` and one that fires an
occurrence holds `lease.clock` (`Leases`); a lease that lapses between two delays is noticed by `Renew`. And an occurrence is recorded
before its run is opened and after every run before it, so that whoever is at "opening" has the newest recorded occurrence and no run
has it yet (`Anchored`). From these `DelaysHaveOneResumer` and `OccurrencesFireOnce`, whoever dies when.

A second invariant there, `CausesInv`, is behind `NoSelfTrigger`, which bounds the number of runs: it counts what may still open one: unread messages, messages
read for which no run has been opened since, watched tasks that are not done, crashes that may come, an occurrence that is recorded, and
occurrences to come. `Accounted` says that the runs and these chances together are at most the causes from outside: a message moves from the
stream to whoever has read it and is used up by the run it opens; a crash brings back one message at most, the one the
replica had in hand; a task that is done brings its event. Nothing else brings any where the actions tell of nothing that triggers
(`OwnWritesIgnored`), which is what `handle` sees to for events of tasks by looking at their origin, and what `sprint_loop` shows it
does not see to for sprints. `NeverSelfTriggered`.

**`AutomationWalksProofs`.** `ExecutedOnce`, `AllSiblingsFirst` and `NothingStranded` speak of what has been visited; what makes them so is
where everything that is still to be executed may be: in a thread's `todo`, behind a pause, behind conversations that are waited for, or
with whoever has just heard of an end. `WalkInv` says where, in four parts.
- `WalkBase`, without a hypothesis: a thread at the step of some kind of node has a node of that kind, and one that hears of a conversation's end works on
  its run and its node (`Errands`); the end "finished" of a conversation is told once (`Told`); what a setting excludes is not left to
  happen (`Spared`); a consumer that goes on after an end that was not "finished" has marked the node failed (`Noted`).
- `CarryInv`, where nothing loses work by design: a run that is open is paused or in the hands of a thread that will look for its
  pauses (`Held`), and what follows a node that completed has been visited, is ahead of a walk, or is behind a pause (`Pursued`). A delay's row is
  deleted only after all behind it has been visited, so the scheduler that resumes it carries that (`Redeems`). `NothingIsStranded`
  follows.
- `OnceInv`, where no conversation outruns its row and no tick its lease: one walk per run begins at the trigger, and a node it has still ahead has
  not been visited (`OwnWalks`, `Unmet`); the same of the resumption of a delay, by `DelaysHaveOneResumer`, even after a crash, since the walk that is
  repeated first loads the steps, and a node that was visited has one, is about to get one, or is among the `lost` (`Traced`). At an agent's node things happen in turn (`AtAgent`): the conversations are registered, their
  ends are heard, one of them finds none left and wins, and its walk goes on. `DeletePendingAgentWaitAndCountRemaining`, one
  transaction that deletes a row and counts the others, is what makes the winner unique (`Contends`, `Follows`). `NodesAreExecutedOnce` follows.
- `HeardInv`, where also nobody crashes and every row of a wait and of a step is written: a conversation that was started is waited for until it has
  finished, or its node has failed (`Heeded`). `SiblingsAreFirst` follows.

The proof first sums up every action by what it does to walks, runs and pauses (`ThreadEffects`, a dozen effects), so that the parts speak of
effects instead of thirty actions; `AtAgent` is then shown for one run and one agent's node at a time. What the definitions of origins mean is proved from
their being greatest fixed points: a node of `ByTrigger` follows only others of `ByTrigger` (`Into`), and so on. TLC checked
`WalkInv` and `CausesInv` on the settings of `automation` too; adding them to the INVARIANTS of `MCAutomation.cfg` repeats it.

Every safety invariant and action property of the passing runs is the subject of a theorem, those of environments and of the queue under
the hypotheses said above. Only model-checked: the liveness properties
(`TriggersHandled`, `IdleSandboxReclaimed`, `QueueAdvances`, `Settles`, `RunsSettle`, `Converges`, `TurnsEnd`), since fairness and ENABLED are
beyond the prover.

## Not modelled

- Pure input and output, and services that create, read, update and delete rows in one transaction: documents,
  comments, activities, annotations, attachments, notifications, projects, roles, settings, git integration. A model would restate SQL.
- The HTTP layer, bootstrap, clients (web, extension, mcp), packaging, deployment, end-to-end tests.
- The plugin runtime: marshalling between the host and WebAssembly guests.
- Docker and Kubernetes calls, the ACP protocol's messages, provider adapters, skills and prompts: represented by their outcome.
- Of the consumers: decoding of messages and creation of the consumer groups.
- Of environments: folders, ssh keys, slugs, assignment of ports, terminals, sidecars, the Kubernetes backend.
- Of automations: evaluation of conditions, content of actions, webhook tokens, editing of graphs but for removed nodes.
- Of the bridge: authentication, events of a conversation, usage, environment commands that travel over it.
- More than one replica of the runner in `ConversationTurns`. Its locks and registries are per process, so two replicas could
  run two turns of one conversation at a time; the Helm chart's default is one (`agentRunner.replicaCount`), and
  `docs/ai-agent/agent-runner-service.md` notes the limitation for control messages. `BridgeRegistry` has several.

## Plan

In this order; each module gets its runs, its mutants and, where said, its proofs.

1. Proofs: weaker hypotheses for `SparesWorkers` and `RowNamesContainer`.
2. `FolderQueue`: `AgentQueue` for several agents that share environment folders, with `checkFolderCapacity`,
   `AdvanceFolderQueue` and `requeueSkipped`. Safety: no row lost; liveness: a free folder is used.
3. `SandboxLifecycle`: the abstract life of a chat's sandbox (absent, in use, kept, being stopped), and `ConversationTurns` shown
   to implement it.
4. `RefreshRotation`, `RoomResync`, `Migrations`, `CachedService`: small protocols with few actors.
5. `ManualOrder` and `IamEvaluation`: pure algorithms against reference definitions over bounded inputs.
6. Two replicas of the runner in `ConversationTurns`, with the registry of provider clients.

## Running

    tlc -workers 2 -config MCConvLock.cfg MCConvLock
    tlc -workers 2 -config MCChatTurns.cfg MCConversationTurns
    tlc -workers 2 -config MCDispatch.cfg MCAgentQueue
    tlc -workers 2 -config MCEnvironments.cfg MCEnvironments
    tlc -workers 2 -config MCAutomation.cfg MCAutomation
    tlc -workers 2 -config MCAcpTurns.cfg MCAcpTurns
    tlapm AgentQueueProofs.tla      (and the other ...Proofs.tla)
