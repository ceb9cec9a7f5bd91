# AI Manus in TLA+

A verification project for AI Manus: TLA+ modules that model the parts of the
system where calls, coroutines, processes and messages meet, TLC configurations
that check them on small instances, and TLAPS proofs for every instance.

Paths below are relative to the repository.

## 1. The system

| part | state it keeps | operations | talks to |
|---|---|---|---|
| Agent session service (`backend/app/domain/services/agent_domain_service.py`) | none of its own; it reads and saves the session document | `chat`, `stop_session`, `_create_task`, `_get_task`, `shutdown` | session repository, task backend, sandbox |
| In-process task backend (`infrastructure/external/task/redis_task.py`) | `_task_registry` (of one process), per task `_runner`, `_execution_task`, an input and an output Redis stream | `create`, `get`, `run`, `cancel`, `is_done`, `destroy` | runner factory, event loop |
| Celery task backend (`celery_task.py`, `celery_worker.py`) | task metadata, a cancel flag and two streams, all in Redis | the same, across processes | Celery broker, worker process |
| Redis stream queue (`message_queue/redis_stream_queue.py`) | one stream, one lock key | `put`, `get`, `pop`, `is_empty`, `delete_message` | Redis |
| Agent task runner (`agent_task_runner.py`) | `_flow`, `_model_error`, file snapshots of tool calls | `run`, `_run_flow`, `_run_chat`, `destroy` | flow, streams, session repository, sandbox |
| Plan-act flow and its agents (`flows/plan_act.py`, `agents/*.py`, `models/plan.py`, `models/memory.py`) | the flow's status, the plan and its steps, the memory of each agent in MongoDB | `run`, `create_plan`, `execute_step`, `update_plan`, `summarize`, `roll_back`, `compact` | LLM, tools, agent repository |
| Session repository (`mongo_session_repository.py`) | the session documents | `save` (the whole document), `update_*`, `add_event`, `find_*` | MongoDB |
| Chat WebSocket (`interfaces/api/ws_routes.py`, `frontend/src/api/chatWs.ts`) | server: the joined session and one stream task per connection; client: pending requests, joined sessions, reconnect timer | join, leave, chat, stop; status updates; reconnect | agent service |
| Claw (`claw_domain_service.py`, `claw_service.py`, `claw_repository.py`, `docker_claw_runtime.py`) | claw session documents, chat states and an event bus in the process, containers | create, provision, restart, delete, expire, chat, merge of histories | Docker, the claw container |
| Claw gateway (`claw/manus-claw/src/*.js`) | pending requests, tool-call buffers, reconnect timer | connect, request, agent events | OpenClaw gateway |
| Sandbox shell (`sandbox/app/services/shell.py`) | one process, a console and the output per shell id; a reader task per process | exec, view, wait, write, kill | the operating system |
| Sandbox supervisor and files (`sandbox/app/services/supervisor.py`, `file.py`) | the shutdown time and its timer task; files | activate, extend, cancel, restart, shutdown; write, upload, replace | supervisord, the file system |
| Projects and session list (`agent_service.py`, `project_service.py`, `session_list/*.py`) | the sessions and projects of a user, one Redis channel per user | create, update, move, delete, drop a project; snapshot and notifications | MongoDB, Redis, browsers |
| Login sessions (`auth_service.py`, `token_service.py`, `session_auth/redis_session_store.py`, `email_service.py`) | login sessions and their index in Redis, the user document, verification codes in the cache | create, touch, rotate, delete, delete all, change, deactivate, send and verify a code | Redis, MongoDB |
| Model registry (`llm/model_registry.py`, `mongo_model_config_repository.py`, `model_config_routes.py`) | the documents of models, a cache in each process | create, import, PATCH, delete, invalidate, list | MongoDB |

What is hard in it:

* **Concurrency without locks.** Everything in the backend runs as asyncio
  coroutines on one event loop; they interleave at every `await`. `chat()`,
  `stop_session()` and the runner of a task share the session document, the
  registry and two streams, and none of them takes a lock.
* **Stale reads.** `chat()` decides on a status it read several awaits ago and
  saves the whole document it read then.
* **Cancellation.** `stop_session()` throws a `CancelledError` into an execution
  at whatever await it is in, its except blocks included.
* **Order of two writes to two stores.** The runner puts an event in Redis, then
  writes a status in MongoDB; the WebSocket reads the first and trusts the second.
* **Crashes.** The registry and all coroutines are gone, MongoDB and Redis stay.
* **Whole documents.** Most repositories find a document, change it and save all
  of it an await later; what was written in between is undone.
* **Two resources for one thing.** A container and its document, a process and
  its reader, a session key and its index, a timeout and its timer task are
  changed one after the other, and either change may fail.
* **Polling.** A stream ends only if a terminal event or the end of the task is
  seen, in the right order.

What makes each part correct: a session is never left RUNNING with nobody to
end it; every message that was accepted is answered or its sender is told; a
task has one execution at a time; a client's stream ends; what the client is
told agrees with the document; queues neither lose nor repeat a message; a step
of a plan keeps the status it was given; an agent's memory stays a legal
conversation; a claw session has at most one container and is not lost between
its states; a login session that was deleted stays deleted; a list or a cache
is not stale for good; a client hears only of the session it has joined.

## 2. The modules

| module | models | checked by | proofs |
|---|---|---|---|
| `AgentSession` | agent session service, in-process tasks, runner, one stream of the chat WebSocket | `MCAgentSession*.cfg` | `AgentSessionProofs` |
| `RedisStreamQueue`, `MessageQueue` | the stream queue, and the queue it should be | `MCRedisStreamQueue.cfg` | `RedisStreamQueueProofs` |
| `CeleryTask` | the task backend that spans processes | `MCCeleryTask.cfg` | `CeleryTaskProofs` |
| `AgentFlow` | the plan-act flow, its agents and their memories | `MCAgentFlow.cfg`, `MCServices.cfg` (types) | `AgentFlowProofs` |
| `ClawSession` | lifecycle, chat and event bus of a Claw session | `MCServices.cfg` | `SocketProofs` |
| `LoginSession` | login sessions, account and reset code of a user | `MCServices.cfg` | `StoreProofs` |
| `ShellSession` | one shell of the sandbox | `MCServices.cfg` | `SandboxProofs` |
| `SandboxServer` | timeout, supervisor and files of the sandbox | `MCServices.cfg`, `MCSandboxServerReplace.cfg` | `SandboxProofs` |
| `SessionStore` | sessions, projects, the list in the browser, file records | `MCServices.cfg` | `StoreProofs` |
| `ModelRegistry` | the models' documents and the cache of their list | `MCServices.cfg`, `MCModelRegistryKey.cfg`, `MCModelRegistryStale.cfg` | `StoreProofs` |
| `ChatSocket` | the receive loop of one chat socket and its stream tasks | `MCServices.cfg` | `SocketProofs` |

`ServicesProofs` shows that the instance `MCServices`, in which the last seven and
`AgentFlow` take turns, says of each no more than its own module does.

They meet at these seams. `AgentSession` takes a stream for a sequence with an
atomic `pop()`, which `RedisStreamQueue` justifies and bounds. It takes a flow for
something that yields events and writes RUNNING; `AgentFlow` is that flow, for one
runner at a time, and what several runners do to each other stays with
`AgentSession`. `ChatSocket` takes `agent_service.chat` for something that yields
events until it ends or raises; `AgentSession` says when that is. `SessionStore`
takes a chat for a save of a whole session that was read before. The others share
nothing but libraries.

A comment "A fault of X" precedes a variant of the definition X, as a slip in
that code would make it: every checked property fails for one of them.

## 3. `AgentSession`

One session, any number of overlapping calls of `chat()` and `stop_session()`.
A call of `chat()` with a message is a *sender*, one without (the client joins a
RUNNING session) a *joiner*. Messages, tasks and executions need no names of
their own: a message is named by its sender, a task by the sender whose
`_create_task` made it, an execution (`_execution_task`) by the sender whose
`task.run()` started it.

| variable | code |
|---|---|
| `doc` | the `SessionDocument`: status, `task_id`, whether `sandbox_id` is set, the messages among `events` |
| `registry` | `RedisStreamTask._task_registry` |
| `tasks` | per task the input and output stream, whether `_runner` is set, `_execution_task` |
| `runs` | per execution where it is in `AgentTaskRunner.run`, its task, the message it popped, how many events its flow emitted; `beside`, a history: it began beside another execution of its task |
| `stopped` | the executions `task.cancel()` reached (a history variable) |
| `chats` | per call of `chat()` where it is, the document it read, its task, its cursor in the output stream, `task_done`, its last event, and the last `status_update` its client got |
| `stops` | per call of `stop_session()` where it is and the task it read |
| `restarts` | crashes so far |

**Grain.** An action is the code between two awaits that reach Redis, MongoDB,
Docker or the model. An `async` function that awaits nothing (`is_done`, `get`
and `cancel` of the in-process task) does not yield and is part of its caller's
action. A store operation takes effect in the action that awaits it; `_create_task`
registers its task and saves the document in one action, because nobody knows
the task before the save.

**Actions.** `Runner(e)` is the body of `AgentTaskRunner.run` and
`RedisStreamTask._execute_task`; `Chat(c)` that of `AgentDomainService.chat` as
`stream_session` reads it; `StopFind`, `StopCancel`, `StopComplete` are
`stop_session`. `OpenStream` and `CancelStream` are the WebSocket starting and
cancelling its stream, at any await. `Interrupted` says where a `CancelledError`
takes an execution: nowhere if its body has not begun (then the `finally` of
`_execute_task` does not run either), into the handler inside the `try` block,
and out of `run()` inside an except block, without the status that block was to
write. `Restart` kills every coroutine and empties the registry.

**Abstractions.** The flow is abstract: it marks the session RUNNING, yields at
most `MaxEvents` events that end nothing, then a DoneEvent or a WaitEvent, or
raises. A "message" event stands for every kind that ends neither flow nor
stream. A client's cursor starts at the beginning or the end of the output
stream. MongoDB and Redis themselves do not fail; sandbox creation, runner
creation and everything inside the flow may.

### Runs

| run | asks | instance |
|---|---|---|
| `session` | `TypeOK`, `RunningIsAttended`, `RegisteredIsUnfinished`, `OwnTaskAnswered` | two messages from two connections and a stop |
| `chat_mode` | `PromptHasMessage` | two messages over one connection, a stop, an event before the last, in chat mode |
| `liveness` | `OneExecutionPerTask`, `StreamsEnd`, `SessionSettles` | two messages and a joiner over one connection, fairness |
| `crash` | `StopFrees` | a message, a joiner, a stop and a crash, fairness |
| `stranded` | `MessagesForwarded` (violated) | two messages over one connection |

* `RunningIsAttended`: while the process lives, a RUNNING document has an
  execution that has its final status still to write, or a `stop_session` about
  to. It is what keeps a session usable: a message for a RUNNING session whose
  task is gone fails.
* `RegisteredIsUnfinished`: the registry holds no finished task.
* `OwnTaskAnswered`: a call that created its task ends on a terminal event,
  unless an execution of that task was cancelled, or one began beside another. It
  depends on the except blocks of the runner and on reading `is_done()` before
  `get()`. The second exception takes three senders on several connections: while
  one is at work, another finds the task that a third has created but not run, both
  build its runner, and one execution pops both messages, abandoning the flow of
  the first for the second, while the other finds nothing and ends. Its end is what
  the third call sees. Two senders, as in the run, do not get there: the attempt
  to prove the property without the exception did.
* `OneExecutionPerTask`: over one WebSocket, whose next frame cancels the stream
  before, `task.run()` never starts a second execution beside a live one. Over
  two connections it can: both calls find `_runner` unset and await
  `create_runner`. The run `session` covers that case, in which the model shows
  `pop()` returning nothing.
* `PromptHasMessage`: in chat mode the model is asked with the history in the
  document, to which the message was added and from which no stale whole-document
  save has removed it.
* `StreamsEnd`, `SessionSettles`, `StopFrees`: the liveness of streams, of the
  status, and of `stop_session` after a crash.

`MessagesForwarded` is violated: a message sent while the execution is past its
last look at the input stream stays there; the session completes and the next
message gets another task. `PROJECT.json` quotes the document that says otherwise.

Two more observations from the model, which no document contradicts outright. The
WaitEvent reaches the client before MongoDB says WAITING (the comment at
`ws_routes.py:262` assumes the opposite order), so an answer sent at once can be
stranded the same way. And the status sent at the end of a stream is read back
before the runner wrote COMPLETED, so the client can be told *running* as the last
thing on that socket.

**Bounds.** Every hazard above is between two calls, or a call and an execution:
two senders, of which the second can be a follow-up, a concurrent message or the
sender of a task's second execution, one stop and one joiner cover each pair.
One mid-flow event is enough for a flow to be abandoned for a new message. One
crash leaves all that a later one could. `CHECK_DEADLOCK FALSE` is set because
the calls are finite: when all have ended nothing is left to do.

**Fairness.** Weak fairness of `Runner(e)`, `Chat(c)` and of a `stop_session`
that has begun: the event loop resumes a coroutine whose await has returned, and
stores, sandbox, tools and the model answer or raise (their clients have
timeouts). Nothing is assumed of users (opening, cancelling, stopping) or of
crashes. A flow's number of events is bounded, as the agent's own limits on
steps and iterations bound it.

### Proofs (`AgentSessionProofs`)

For all finite or infinite sets of calls, all bounds and both modes:

* `TypeCorrect`: `Spec => []TypeOK`
* `Attended`: `Spec => []RunningIsAttended`
* `Registered`: `Spec => []RegisteredIsUnfinished`

* `OneAtATime`: `Spec => []OneExecutionPerTask`
* `PromptComplete`: `Spec => []PromptHasMessage`
* `Answered`: `Spec => []OwnTaskAnswered`

They rest on `ConstantsAssumption` only (senders and joiners are disjoint, the
bounds are natural numbers, `None` is no sender). None of them is inductive. For
the first three `Inv` is:

* `TypeOK` needs that only senders get to creating and running a task
  (`SendersWrite`), and that whoever uses a task has one (`HasTask`), or an
  execution could pop from a stream that does not exist.
* `RunningIsAttended` needs that a document which is about to be saved back was
  not read as RUNNING (`StaleIsIdle`): that is what saves the session from the
  stale save, and that a call begins its execution once (`NotYetRun`), or it could
  overwrite one that attends to the session.
* `RegisteredIsUnfinished` needs that an execution and its task point at each
  other (`ExecutionOfTask`), so that the execution that ends drops the task it
  executed, and that nobody knows a task before it is created (`NotYetCreated`).

For the others `DeepInv`, which adds three parts to it:

* `OneInv`: a connection has one stream at a time (`OneStream`), so that a task that is
  being built has not been executed (`NewTasksNeverRan`, `BuildsNewTask`), and only the
  latest execution of a task may be under way (`LiveIsLatest`).
* `PromptInv`: in chat mode no call finds the session RUNNING (`NeverRunning`), so that
  every message has a task, a stream and an execution of its own (`OwnTask`,
  `OwnMessages`, `OwnExecution`); what a call is about to save whole has every message
  recorded before (`SnapHasHistory`: this is what the one connection is for), and so a
  message stays recorded while its execution lives (`Recorded`).
* `AnswerInv`, for any number of connections, calls, cancellations and crashes: the
  first execution of a task finds a message (`NotBegun`, `PutFirst`); unless one began
  beside another it is alone (`AloneOnTask`), so nobody takes that message; an
  execution that is not cancelled puts a terminal event before it ends (`OutputEnds`);
  a call polls only a task that was executed (`Polls`), so that a `task_done` which it
  has read means that the terminal event is in the stream, at or behind its cursor
  (`Reads`).

The frame lemmas (`RunnerFrame`, `ChatFrame`, `StreamFrame`, `StopFrame`,
`RestartFrame`) say field by field what a step of each coroutine changes,
`RunnerMoves` and `ChatMoves` what it does to streams and cursors; one lemma per part
of an invariant then goes through the coroutines.

* `StopsFree`: `StopFrees`, which is liveness: a call of `stop_session` that has read the
  document, with the last crash behind it, brings the session out of RUNNING. Nobody
  but the call itself moves it (`StopMoves`), and both of its ways end in a write of a
  status other than RUNNING. The fairness it needs is that of the call of
  `stop_session` alone; section 9 says how it is stated.

## 4. `RedisStreamQueue` and `MessageQueue`

`RedisStreamQueue.put` is one XADD; `pop()` takes a lock (SET NX EX), reads the
first message (XRANGE), deletes it (XDEL) and releases the lock with a script
that compares the uuid. Each command is an action, so is each sleep of 0.1 s.
`last` and `stream` are the Redis stream, `lock` the lock key with the time it has
left, `calls` the local state of each call of `pop()`. A message is the number
XADD gave it.

`Fail` and its three companions are a command that fails, or a coroutine that is
cancelled in it, without and with the command's effect; `Die` is the end of the
process. The `finally` block runs in the first case and not in the second.
`Tick` is 0.1 s: it wakes the sleepers and ages the lock. Nothing bounds how long
a call takes between two commands, so that a lock may expire under its holder; `late`,
a history, remembers the calls whose lock expired between its SET and their XDEL.

`MessageQueue` is the interface of `domain/external/message_queue.py`: `Take` gets
and removes the first message in one step. A call may end without a message, and
one that raised may have taken a message with it: the code can do no better when
the reply to its XDEL is lost. `Share` is what the lock cannot exclude: a call gets a
message that another has removed, if one of the two is late (`Overstay`).

| run | asks | instance |
|---|---|---|
| `queue` | `TypeOK`, `InOrder`, `Implements`, `LockFrees` | three calls, three messages, every fault, pauses past the expiry, fairness |

* `Implements`: the refinement, whatever fails, dies or pauses. A call that is paused
  for 10 s before its XDEL can share its message with another, because nobody looks at
  what XDEL replies. No other two calls can.
* `InOrder`: even then, a call that reads the stream gets a message that was put after
  those which the calls that had ended before got. No message comes again to a later
  call, and none is overtaken.
* `LockFrees`: nobody holds the lock for ever.

Since waiting ends after 5 s and a dead holder's lock after 10 s, `pop()` can say there
is nothing when there is something (`GiveUp`); `AgentSession` has what the runner then
does.

**Bounds.** One attempt and an expiry of two units keep the order of the 5 s and the
10 s: a call that waits gives up before a dead holder's lock expires, one that comes
later does not. Three calls are a holder, one that takes over from it, and one that
profits from a wrong release. 200,621 states. **Fairness** is that time passes and that
commands are answered or fail (`Tick`, `Pop(p)`); no fault and no pause is assumed to
happen.

**Proofs (`RedisStreamQueueProofs`)**, for any calls, messages, attempts and expiry,
with all faults and pauses: `Refinement` (`Spec => Implements`), `Fifo` (`InOrder`),
`NeverTwice` (two calls get one message only if one is late), `NothingLost` (what left
the stream was read by a call: XDEL names what was read) and `TypeCorrect`. The
invariant has three parts besides the types. `NoneYet`: a call that has read nothing
has no message. `Ordered`: what is in the stream is no older than what any call has
read, and what a call deleted is not in it; that much needs no lock. `Exclusive`: a
call between its SET and its XDEL holds the lock or is late, from which two calls read
one message only if one of them is late (`ReadOnce`). With these an XDEL maps to `Take`
or `Share`, a tick under whose expiry a call comes to `Overstay`, the end of a call to
`End`, and every other step to a stutter.
`LockRunsOut`, with all faults and pauses, is why `LockFrees` holds: a lock that is held
has time left (`LockLives`), is never prolonged, and loses time with every tick
(`LockFalls`).

## 5. `CeleryTask`

One task of the Celery backend. `status` and `flag` are the two keys in Redis
(`task:meta:{id}`, `task:cancel:{id}`), `runs` the calls of `run()` and `cancels`
those of `cancel()` in the API processes, `jobs` the executions in the broker and
the workers. A job is named by the call of `run()` that sent it; a flag by the
`cancel()` that set it, though Redis stores `"1"`: `jobs[r].by` and
`cancels[c].aims` (the jobs a `cancel()` can mean) only remember, no guard reads
them.

`RunRead`, `RunClear`, `RunWrite`, `RunSend` are the awaits of `run()`; `CancelRead`
and `CancelSet` those of `cancel()`; `Pick` to `WriteDone` are `_run_agent` and
`_watch_cancel`. `HasHandle` is why the first `run()` is alone: `get()` finds no task
without metadata. `write_meta` reads the metadata and writes it back, but all
callers pass the parameters, so the read changes nothing and the write is one
action.

Faults may happen at every step. A call of `run()` is cancelled with the stream it
belongs to, meets an error, or dies with its process: it is "over" if that was before
it wrote the status, and "cut" between the status and the job. `create_runner` raises
before the `try` block, or the worker dies: the job is "gone" (Celery acknowledges a
job when it starts, so it is not delivered again). A job waits longer than
`CANCEL_TTL_SECONDS`: the flag expires and its cancel is "lapsed". `OneCaller` says that
calls of `run()` do not overlap, as over one WebSocket.

| run | asks | instance |
|---|---|---|
| `celery` | `TypeOK`, `OneExecution`, `DoneMeansDone`, `NoStaleCancel`, `ActiveHasJob`, `CancelTakes` | three calls of `run()` that do not overlap, two of `cancel()`, all faults, fairness |

* `OneExecution`, `DoneMeansDone`: one worker executes the task at a time, and none
  when the task says it is done.
* `ActiveHasJob`: a task that says it is pending or running has a job, or is about to
  get one. It excepts the two losses that nothing repairs (`Orphaned`): a call of
  `run()` that ends between `write_meta` and `send_task`, and a job that is gone without
  writing DONE, leave a task that says pending and has no job; `run()` then never sends
  it again, until the metadata expires after seven days. Every other failure loses
  nothing.
* `NoStaleCancel` and `CancelTakes` say together what the flag achieves, for all
  orders of three coroutines that set, clear and poll it: a `cancel()` ends the jobs
  whose `run()` has passed `clear_cancel`, and no later one. `CancelTakes` excepts a flag
  that expired (`Lapsed`), and needs jobs that do not overlap (the first to end clears
  the flag of both).

Without `OneCaller`, `OneExecution` is false: two calls that find the task done both
send it, although `run()` is to enqueue "if it is not already running".

**Bounds.** Three calls of `run()` are an execution, the next one and one that follows
a failure; two of `cancel()` an early and a late one. 36,298 states. **Fairness**: API
calls that have begun, and what a worker does except for the agent itself, which need
never end.

**Proofs (`CeleryTaskProofs`)**, for any number of calls and with all faults:
`OnlyAimedAt` (`NoStaleCancel`, for calls that overlap too) from `FlagFresh`: a flag that
is set was set for every job it can reach. `ExecutedOnce` and `DoneIsFinal`, under
`OneCaller`, from `BusyAlone` (a call that is about to send is alone, and no job is
live) and `StatusTells` (a live job shows in the status, so that `run()` does not
enqueue). `TypeCorrect`. `ActiveIsExecuted`: `ActiveHasJob`, for any number of callers
that overlap: only a job that ends writes DONE, and every other status has a call about
to send, a job that has not written its last, or one of the two losses. `CancelsTake`:
`CancelTakes`, which is liveness, under `OneCaller`. What a `cancel()` is for keeps being
aimed at, and until it is over the flag stays up for it, unless it lapses; `Left`, from
8 to 0, counts the awaits of `run()` and the worker's that are left to it, never grows,
and falls with each of them (`LeftFalls`); and while any is left, one of the two can go
on (`NeverStuck`).

## 6. `AgentFlow`

The work of one session behind `AgentTaskRunner`: `PlanActFlow.run`, the planner and
execution agents, the loop `BaseAgent.execute` they share, and the abandoning of a
flow when the user writes again.

| variable | code |
|---|---|
| `doc`, `inbox` | the session's status; the messages in the task's input stream |
| `runner` | none, between two flows, or in a flow |
| `status`, `plan`, `step` | the fields of the flow object |
| `recorded` | the plan in the last PlanEvent of the document, which `get_last_plan` reads back |
| `memory` | per agent the open tool calls of its last message, and whether calls without a result lie under later messages |
| `loop` | the call of `execute` in progress: for what, where, which call of the reply, how many iterations and nudges |
| `finished`, `asker`, `unrecorded`, `cut` | history: steps that ended, the step that asked the user, a failed update of the plan, memories left with calls they cannot answer |

`StartPlanning` to `StartUpdate` and `Complete` are the states of `PlanActFlow.run`;
`Reply`, `HandleOutputCall`, `UnknownTool`, `InvokeTool`, `EndOfCalls` the loop;
`AskUser` and `WaitForUser` the question that ends a flow in the middle of a reply;
`PlanCreated` to `PlanNotCreated` what each state does with the end of a loop.
`Message`, `Stop`, `Raise` and `Die` come from outside. The model may reply with any
batch of tool calls. `Yield` is an event that the flow hands to the runner, which
abandons it there if a message has come.

| run | asks | instance |
|---|---|---|
| `agent_flow` | `BrokenOnlyIfCut`, `AnswerReachesAsker`, `StepOnce`, `SummaryComesLast`, `LoopEnds` | two messages, plans of up to two steps, three steps in all, replies of up to two calls, two iterations, one nudge |

* `BrokenOnlyIfCut`: a provider refuses a conversation with an unanswered tool
  call. `roll_back` repairs what a flow left, wherever it was left, but for two
  cases the model shows: an agent cut off by its iteration limit never answers its
  last calls, and a question that was the first of several calls is answered alone.
* `AnswerReachesAsker`, `StepOnce`, `SummaryComesLast`: what the user answers goes to
  the step that asked, a step is executed once and a plan is summed up when all of
  it was, across waits, abandoned flows and deaths of the process. The first two
  need the last update of the plan to be recorded (`unrecorded`): a planner that fails
  to update leaves an older plan in the document, and a wait or a crash then goes
  back to it.
* `LoopEnds`: the loop ends whatever the model replies.

One observation: `execute_step` marks a step completed after its loop
(`execution.py:110`), also when an ErrorEvent had just marked it failed, so that no
step stays failed.

**Bounds.** Two messages are a task and what interrupts or answers it; two steps are
one that is done and one that is not; replies of two calls have a first and another.
**Fairness**: the event loop, the model, tools and stores return (`FairFlowSpec`);
nothing is assumed of the user, of stops or of deaths.

**Proofs (`AgentFlowProofs`)**, for any numbers of messages, steps, calls in a reply,
iterations and nudges, from `FlowConstants`: `FlowTypes`, `RepairedConversations`
(`BrokenOnlyIfCut`), `SummaryLast`, `EachStepOnce` and `AnswersArrive`. All rest on
`Control`: what the loop is for agrees with the state of the flow (`Places`), the
status, the step and the agent it works for. On top of it

* `Repaired`: an agent that is not in its loop, or has yet to be asked, has nothing open
  but what the roll-back at its next start answers, or is in `cut`.
* `StepsInv`: the plan of a flow and the plan recorded agree about the steps that were
  done, and steps are worked on in their order, the least one that is left; that there
  is a least one is what well-foundedness of the naturals gives the CHOOSE of
  `NextStep`.
* `FreshInv`: `StepOnce`, with the plan in the flow never behind what was finished.
* `Agreed`, `Asked`: while the session waits, the recorded plan has the step of the
  asker as its next, and the flow that the answer begins reads it back.

`LoopRunsOut` is why `LoopEnds` holds: the iterations that are left, then the stage of the
iteration, then the calls of the reply that are left, fall lexicographically with every
step but a message of the user, which leaves the loop alone (`LoopShortens`), and none
falls below zero (`LeftInv`). That the loop of a reply never goes past its last call
(`CallsInOrder`) is the invariant it takes.

## 7. The services

`MCServices` holds seven modules that share no state, and `AgentFlow` for its types. A
variable `focus` is chosen once and says which of them acts; the others stay in
their initial states, so that the states are the union of theirs and not the
product. Where a module's calls fall into kinds whose mix shows nothing new, each
kind has a focus (`claw deletes`, `claw views`, `claw chats`; `logins`, `codes`;
`shell`, `overlaps`; `supervisor`, `files`; `list`, `sync`, `document`; `registry`,
`edits`). `View` drops the variables that a focus does not change. 409,552 states.

Fairness is stated for calls of a Claw session and for its provisioning only
(`FairServicesSpec`): Docker, MongoDB and the polls of a container return or time
out. `CHECK_DEADLOCK FALSE`: the calls are finite.

| focus | instance | properties |
|---|---|---|
| claw | one restart, and a delete or a view, racing two provisionings; one chat of two chunks and a tool call with a delete | `VolumeKept`, `NoStrayContainer`, `ProvisioningSettles`, `JoinSeesAll`, `DoneMeansStored` |
| logins | two requests at a time, three in all, three login sessions | `IndexCovers`, `EndedStaysEnded` |
| codes | two requests at a time, six in all | `CodeLimit` |
| shell, overlaps | two commands, a kill and what is typed; three commands that overlap | `OneProcess`, `OwnOutput` |
| supervisor, files | timeouts of up to three minutes, two by default; two edits of two files | `TimerIsTimeout` (and `file_replace`) |
| list | one session, one project, two calls | `ListIsCurrent` |
| sync, document | two runners on one path, three uploads, a user's attachment; two calls that save or delete the session over one runner | `OnlyLatestRecord` |
| registry, edits | one edit and two readers, a TTL of one; two edits | `StaleBounded` (and `key_dropped`, `stale_cache`) |
| socket | three frames (join, leave, chat, stop), two sessions | `OfJoinedOnly` |

Each bound is the least at which two calls of every pair of operations overlap and
one follows: a third request logs in, or logs out, after two that raced; a third
frame switches back; six requests exhaust the three attempts of a code and begin
another; a third command finds the entry that a second one replaced under a first.

### `ClawSession`

`claw` is the MongoDB document, `host` the container and the volume, `calls` the REST
calls (`restart_session`, `delete_session`, and views, which may expire the session or
find it dead), `provs` the provisioning tasks, each named by the call that spawned it,
`chats` the calls of `send_message`, `state` the entry of `_chat_states`, `client` a
client of the claw WebSocket. The Docker client is synchronous, so that nothing runs
between two of its commands; the repository finds a document and saves all of it an
await later. Docker may fail to create a container, before it removes the one of the
same name or after; its removals (`destroy`, `destroy_volume`, whose failures the code
logs) are taken to succeed.

* `VolumeKept`: the memory of a session, its volume, survives restarts, expiry and
  the death of containers.
* `NoStrayContainer`: when all has ended, a container that runs is one the session
  names. Without `stale` it is false: when an earlier provisioning fails and saves that
  there is no container, a delete that reads this, before the later provisioning
  saves its own, destroys nothing and removes the document. A container that a failed
  creation of another left (`left`, a history) is excepted too. With two restarts it
  happens without a stale save, in 23 steps: the failure of the first provisioning
  saves that there is no container while the second one's runs, the second restart
  reads that and destroys nothing, and Docker fails its `create` before it removes the
  container of the same name. A session and its browser then show ERROR, and a
  container runs that no call finds until one creates another. The run has one restart;
  the proof of section 8 is what made this visible.
* `DoneMeansStored`: a client that is told that a reply is done finds the request and
  the reply in the transcript.
* `ProvisioningSettles`: a session leaves CREATING.
* `JoinSeesAll`: who joins in the middle of a reply gets all of its text. With two
  chats at a time (`crowded`) it is false: they share one `_chat_states` entry.

`Slow` says that a container needs longer to become ready than a command to Docker or
MongoDB that had begun before; without it provisionings would overtake each other by
their last update.

### `LoginSession`

`live` and `index` are the keys `session:<id>` and the set `user_sessions:<user>`,
`account` the user document, `code` the verification code, `reqs` the requests in
progress. An action is one command to Redis or MongoDB.

* `IndexCovers`: `logout_all` reads an index; a stored session is in it. Two things
  escape, and the model shows both: a session that a `touch` wrote back after it was
  deleted (`revived`), and one created while another `logout_all` stood between its
  SMEMBERS and its DEL (`missed`).
* `EndedStaysEnded`: a session is refused once a logout, rotation or `logout_all` of
  it has returned, but for those that a `touch` revived.
* `CodeLimit`: three attempts and one success per code, if its verifications overlap
  neither each other nor its sending. If they do, the limit fails, as `verify_code` reads
  the attempts, compares, and writes them back; the code that has none left is deleted
  an await after the read (`Burn`), so that the one deleted may be another.

An observation: every change of a profile, a password and the login itself saves the
whole user it read, `is_active` included, so that it can undo a deactivation that came
in between.

### `ShellSession`

`shell` is the entry of `active_shells`, `processes` and `readers` the processes and the
tasks that read their pipes, `execs` and `kills` the calls. A call of `exec_command`
looks for the entry, and terminates its process, before it awaits the new process
(`entry`, which tells the entries apart): it resets the process and the output of the
entry that is there afterwards, but appends its record to the console of the one it
found. A call that found none makes an entry, and replaces one made meanwhile.
`misplaced` remembers commands whose record went to the console of a replaced entry.

* `OneProcess`: every earlier process has exited or was sent SIGKILL, so that no
  command runs on beyond the reach of `kill_process`. Calls of `exec_command` that
  overlap while one creates its process (`overlapped`) can lose one.
* `OwnOutput`: what is shown under a command is its own output and what was typed.
  Two exceptions are faults the code has: what was left to read of the commands that
  still had a reader when it began (`open`), as the reader of an earlier process appends
  to whatever record is the latest; and, with three commands that overlap, the output
  of a command that has no record there (`misplaced`).

### `SandboxServer`

`timeout` and `timers` are the fields and sleeping tasks of `SupervisorService`, `rpcs` its
calls to supervisord, `files`, `temp` and `edits` the calls of `FileService`.

* `TimerIsTimeout`: the timeout that is shown is the one that comes.
* `ReplaceKeepsRest` is violated (run `file_replace`): `str_replace` reads with the
  default `max_length`, and writes the truncated text back.

An observation: writes with sudo go through a temporary file named by the process
alone, so that two that overlap can write each other's text.

### `SessionStore`

`sessionDocs`, `projects` and `fileRecords` are documents, the file records a part of the
session's; `updates` the calls that change them, a save of a whole session by a chat
among them, which writes back the fields and the records it read; `channel` and `list`
the Redis channel and the browser's list; `sync` the runners that keep the files.
`create` may name a project, which it looks for first.

* `ListIsCurrent`: when nothing is under way the list shows what is stored. Excepted
  (`unheard`) are sessions whose last change nobody could tell of: Redis failed, a
  session came into a project while that was dropped, or a save overtook a delete.
* `OnlyLatestRecord`: a path that is written again and again has the record of the
  file uploaded last and no other; it has none only while a sync replaces it, or after
  one was cut between its remove and its add (`latest`, a history). Three things
  escape and are excepted (`disturbed`): a whole-document save brought back records or
  took them away, two runners synced one path at a time, or a user attached a file,
  which nobody looks for a record of its path for.

### `ModelRegistry`

`model` is the document of one model, `registry` the version of the collection and when
each version was superseded, `cache` and `lastGood` the globals of `model_registry.py`,
`admins` the calls that change the registry, `lookups` those that read it.

* `StaleBounded`: what is served had been current less than a TTL before the call
  began, whatever edits, invalidations and slow reads overlap. A read that began
  before an edit may fill the cache after its invalidation, and other processes are
  never invalidated.
* `EditsImmediate` is violated (run `stale_cache`): admin edits do not "take effect
  immediately rather than after the TTL" when such a read overlaps them.
* `KeyKept` is violated (run `key_dropped`). So are, by the same whole-document save,
  the other fields that a PATCH leaves out, and a PATCH inserts a model anew that was
  deleted in between.

### `ChatSocket`

`receiver`, `joined` and `current` are the receive loop of `chat_ws`, `joined_session_id`
and `stream_task`; `streams` the tasks, each named by the frame that started it;
`lastSent` and `told` what the client was sent last and was told that it joined.
`StopRoom` and `SendsCompleted` are `stop_session`: the answer "stopped", and then a
`status_update` "completed" of the session that the frame named, joined or not.

* `OfJoinedOnly`: events, statuses and `stream_end` are of the session that the client
  was told it joined last. The "completed" that answers a stop is excepted.

Two observations: a `chat_ack` may be followed by the `stream_end` of the stream before
it, of the same session; and a join that reads RUNNING just as the task ends gets the
last events only on a reload.

### Runs that are violated

| run | property | what happens |
|---|---|---|
| `stranded` | `MessagesForwarded` | a message put in the input stream after the execution's last look at it is never read |
| `file_replace` | `ReplaceKeepsRest` | a replacement in a file of more than 10000 characters drops the rest of it |
| `key_dropped` | `KeyKept` | two PATCH requests overlap: the one without a credential saves the older one back |
| `stale_cache` | `EditsImmediate` | a read from before an edit fills the cache after the edit invalidated it |

`PROJECT.json` quotes what each contradicts.

## 8. Proofs about the services

`StoreProofs`, of `ModelRegistry`, for any finite set of admin calls, any readers and
any TTL, from `RegistryAssumption`:

* `RegistryTypes`. Versions are bounded by the number of calls; that this bound holds
  needs each call to make one version at most (`OneVersionEach` counts the calls that
  have nothing left to write), and that a PATCH saves a model it has read
  (`HoldsModel`).
* `BoundedStaleness`: `StaleBounded`. It is not inductive; what is: a copy is dated no
  later than now (`PastTimes`), and was current at its date (`CopiesDated`). The date is
  from before the read, so a version that the read found was superseded no earlier;
  and a copy is served less than a TTL after its date. With the date taken after the
  read, the second part fails, which is the mutant of the run.

`SocketProofs`, of `ChatSocket`, for any frames and sessions, from `SocketAssumption`:

* `SocketTypes`.
* `HearsOfJoined`: `OfJoinedOnly`, with the answer to a stop excepted as there. The
  strengthening: what the client was told is
  `joined` (`ToldWhatIsJoined`); a join that is handled
  names a session, and none but it is joined when it goes on (`HandlesJoin`); and the one stream that lives is `current`, of
  the session joined (`StreamsOfJoined`). The last needs `Cancelled` to end the task
  before the loop goes on.

`SocketProofs`, of `ClawSession`, for any number of restarts, deletes, views, chats and
chunks, from `ClawConstants`:

* `ClawTypesKept`.
* `VolumeSurvives`: `VolumeKept`. Inductive with the types, as no call that is not a
  delete in its last part touches the volume (`UndeletedBefore`).
* `JoinersSeeAll`: `JoinSeesAll`. A chat that becomes the pending one has said nothing
  before (`NothingSaidYet`).
* `DoneIsStored`: `DoneMeansStored`. The transcript has what each chat stored before it
  went on (`ChatsStored`), and only a stale save takes an entry out (`TranscriptKept`, an
  action property, from `TranscriptGrows`).
* `ProvisioningEnds`: each provisioning ends, and a session that is CREATING for it does
  not stay so, unless one on another model takes its place. A document that says
  CREATING has a provisioning under way for its model (`Attended`), every save of one
  says RUNNING or ERROR at its end (`Says`), and the steps that a provisioning has
  left (`ToGo`, from 9 to 0) only fall.
* `NoneStray`: `NoStrayContainer`. While the container runs, either a provisioning
  will name or remove it (`Holds`), or nobody is about to take the name out of the
  document (`CallUnnames`, `ProvUnnames`) and it is named there or by a provisioning that
  will save it (`Attached`). That a call which stops a session has removed its container
  needs that what runs has a name (`Names`); that a save keeps the document there, that
  it has found it (`FoundThere`); that the provisioning of a restart overwrites nobody's
  place, that it had none (`NotSpawned`). `Slow` is what keeps a provisioning whose
  container got ready from being overtaken, and is used at that step only. TLC checked
  `StrayInv` for two restarts with a delete, and for one with a view and a chat.

`StoreProofs`, of `LoginSession`, for any number of requests in progress, requests and
sessions, from `LoginConstants`:

* `LoginTypes`.
* `IndexComplete`, `EndedForGood`: `IndexCovers` and `EndedStaysEnded`, of the sessions
  that no `touch` revived and, for the index, that no `logout_all` missed. They become
  inductive with what is known of a request under way (`RequestInv`): it names sessions
  that were created, never one of later (`NamesKnown`, `HasSession`); and once it has
  deleted its session, only a `touch` brings that back, so that it may go on to take it
  out of the index or to put a new one in its place (`HasDeleted`).
* `ThreeAttempts`: `CodeLimit`, of codes whose verifications overlap neither each other
  nor a sending. A code that is compared had attempts left when it was
  read (`HasAttempt`), and as long as verifications do not overlap, the attempts stored
  count the comparisons (`AttemptsCounted`).

`SandboxProofs`, for any number of minutes, edits, commands and kills, from
`SandboxConstants` and `ShellConstants`:

* `SandboxTypes`, `TimeoutComes`: `TimerIsTimeout` is inductive by itself with the types
  of the supervisor; the task that wakes is the one of the timeout shown.
* `ShellsTyped`. Who terminates has a process to terminate, and the latest record of a
  console is about the process of the session (`EntryComplete`, `HaveProcess`).
* `OneProcessLeft`: `OneProcess`. Without overlap one call at most creates a process, and
  it knows what has become of the one before: there was none, it is about to be
  terminated, or it has exited or is doomed (`CreatorAlone`).
* `OutputIsOwn`: `OwnOutput`, for any overlaps. A reader that still reads is of the
  command of the latest record, was open when that began, or is of a command without a
  record there (`ReadersKnown`), and what the session shows is what
  that record may (`CurrentOutput`).

`StoreProofs`, of `SessionStore`, for any sessions, projects, calls, paths and uploads, from
`StoreConstants`:

* `StoreTypes`. A call that looks for a project is one of three, and one that saves it
  has found it (`StoreUpdate`).
* `CurrentList`: `ListIsCurrent`. Of every session that is not unheard of, the last
  message in the channel says what is true of it, and if there is none, the list shows
  it (`Heard`). That a socket subscribes before it loads the list (`SubscribedFirst`) is
  what a snapshot needs: what comes later is in the channel.
* `LatestRecord`: `OnlyLatestRecord`, for any number of runners and saves. At a place
  that was not disturbed (`PlaceKept`) one runner syncs at most; what it has found is all
  there is, and after the removal nothing is.

`ServicesProofs`, of `MCServices`, from the assumptions of all its modules:

* `ServicesBehave`: `ServicesSpec` implies the specification of each service. Whichever
  focus acts, every service takes a step of its own or stutters (`EachActs`), so that the
  restrictions by which the instance keeps its states few add no behaviour.
* `ServicesTyped`: `ServicesTypeOK`, from that and the types of each service.

## 9. Liveness, and what is only model-checked

The prover takes `ENABLED` for an unknown, and its temporal steps combine finitely many
facts: it has no induction along a number that is a constant of the model. This is
how far the liveness properties get with that.

| property | proved | left to TLC |
|---|---|---|
| `CancelTakes` | `CancelsTake` | in which states the actions are enabled |
| `StopFrees` | `StopsFree` | the same |
| `ProvisioningSettles` (`CreatingSettles`) | `ProvisioningEnds`, for each provisioning | the same; that finitely many restarts can replace one provisioning by the next |
| `LoopEnds` | its variant, `LoopRunsOut` | the step from a variant to the end, along `MaxIterations` and the calls of a reply |
| `LockFrees` | its variant, `LockRunsOut` | the same, along `Expire` |
| `StreamsEnd`, `SessionSettles` | `Answered`, `Attended`: what a stream waits for comes before it looks | the chain itself, through `MaxEvents` events of a flow |

Where liveness is proved, weak fairness is written out with the states in which the
code can go on in the place of `ENABLED`: `SendsFairly(r)` and `ServedFairly(r)` of
`CeleryTaskProofs` (no call of `run()` between two awaits, no worker with a job to end,
waits for ever), `StopsFairly(s)` of `AgentSessionProofs`, `GoesOnFairly(p)` of
`SocketProofs`. The corollaries `CancelsTakeFairly`, `StopsFreeFairly` and
`ProvisioningEndsFairly` state the same of `FairSpec` and `FairClawSpec`, under
`[]Readiness`: that those states are the ones in which the actions are enabled. TLC
evaluated `Readiness` in every reachable state of the instances of `celery`,
`crash` and `services` and found it true; no run repeats that, as it says nothing about
the code.

Only model-checked are further

* the violated properties of section 7, which are false, and the faults;
* that each property is about the code rather than about the form of the model, which
  rests on the faults (section 2) that TLC finds.

## 10. Not modelled

| part | why |
|---|---|
| `shutdown`, `destroy` of tasks and runners | they end the process; what a process leaves behind is modelled as its crash |
| Expiry of Celery metadata after seven days, redelivery by the broker | longer than a task lives; the broker's settings are not in the repository |
| `get`, `is_empty`, `size`, `clear`, `delete_message` of the stream queue | one read each, or called by nothing |
| Cursor of a rejoining client, `chatWs.ts` | the id of an event, looked up in the events of the session; the client is TypeScript of one page. `ChatSocket` takes frames in every order |
| VNC proxy | bytes passed on between two sockets |
| Merge of claw histories, attachments, OpenAI-compatible proxy | comparison of texts and times, file transfer, an HTTP proxy without state |
| Claw gateway | a plugin of the claw container; its chunks are the environment of `ClawSession` |
| LLM gateways, JSON repair | calls of providers; text in, text out |
| Browser, search and MCP tools, Docker sandbox | clients of external services; `AgentFlow` takes a tool for something that returns a result, fails or raises |
| Content of tool events, compaction, vision fallback, prompts | data no property tells apart |
| Capability catalogue, `test_model_connection`, encryption of keys | a table, a call that changes nothing, a pure function |
| Password hashing, SSO, signing of JWTs | cryptography; `LoginSession` takes a token for the id of its session |
| Ratings, unread counters, project instructions | fields nothing else depends on |
| Request validation, web pages | no state; presentation |
