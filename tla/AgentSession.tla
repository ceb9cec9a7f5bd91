--------------------------- MODULE AgentSession ---------------------------
(***************************************************************************)
(* One agent session of the backend: the chat() and stop_session()         *)
(* coroutines of AgentDomainService, the in-process task backend           *)
(* (RedisStreamTask) with its registry, the AgentTaskRunner that each      *)
(* execution of a task runs, the session document in MongoDB, the two      *)
(* Redis streams of every task, and the status_update the chat WebSocket   *)
(* sends to the client of a stream.                                        *)
(*                                                                         *)
(* An asyncio coroutine yields only at an await that reaches Redis,        *)
(* MongoDB, Docker or the model: every action below is the code from one   *)
(* such await to the next.                                                 *)
(*                                                                         *)
(* A sender is a call of chat() with a message, a joiner one without. A    *)
(* message is named by its sender, a task by the sender that created it,   *)
(* and an execution of a task by the sender whose task.run() started it.   *)
(***************************************************************************)
EXTENDS Naturals, Sequences, FiniteSets

CONSTANTS Senders,          \* calls of chat() that carry a message
          Joiners,          \* calls of chat() without one (join_session)
          Stops,            \* calls of stop_session()
          MaxEvents,        \* non-terminal events a flow emits per message
          MaxRestarts,      \* crashes of the API process
          ChatMode,         \* session.task_mode is "chat" (else "agent")
          SingleConnection, \* all calls of chat() come from one WebSocket
          None

ASSUME ConstantsAssumption ==
    /\ Senders \cap Joiners = {}
    /\ MaxEvents \in Nat
    /\ MaxRestarts \in Nat
    /\ ChatMode \in BOOLEAN
    /\ SingleConnection \in BOOLEAN
    /\ None \notin Senders

Clients == Senders \cup Joiners

VARIABLES
    doc,        \* the session document
    registry,   \* RedisStreamTask._task_registry
    tasks,      \* each task: its streams, whether its _runner is set, and
                \* its _execution_task
    runs,       \* each execution: where it is in AgentTaskRunner.run, its
                \* task, the message it popped until the flow begins, and
                \* how many events its flow has emitted; and, as a history,
                \* whether it began beside another execution of its task
    stopped,    \* executions that task.cancel() reached
    chats,      \* each call of chat(): where it is, the document it read at
                \* its start, its task, how much of the output it has read,
                \* its task_done, its last event, its client's last status
    stops,      \* each call of stop_session(): where it is, the task it read
    restarts

vars == <<doc, registry, tasks, runs, stopped, chats, stops, restarts>>

SessionStatus == {"pending", "running", "waiting", "completed"}
\* "message" stands for every event that ends neither flow nor stream.
EventKind == {"message", "error", "wait", "done"}
Terminal == {"error", "wait", "done"}     \* chat() stops reading after these

\* Up to "written" an execution is inside the try block of run(), in "failing",
\* "cancelling" and "closing" inside one of its except blocks.
RunnerPC == {"none", "scheduled", "refuse", "loop", "pop", "begin", "flow",
             "more", "ended", "setwaiting", "finish", "written",
             "failing", "cancelling", "closing", "exit", "dead"}
ChatPC == {"idle", "find", "lookup", "create", "put", "record", "run", "build",
           "poll", "read", "report", "closed", "aborted"}
StopPC == {"idle", "cancel", "complete", "closed"}

MaybeSender == Senders \cup {None}
Session == [status: SessionStatus, task: MaybeSender, sandbox: BOOLEAN,
            history: SUBSET Senders]
Task == [input: Seq(Senders), output: Seq(EventKind), built: BOOLEAN,
         execution: MaybeSender]
Run == [pc: RunnerPC, task: MaybeSender, msg: MaybeSender, count: 0..MaxEvents,
        beside: BOOLEAN]
ChatCall == [pc: ChatPC, snap: Session, task: MaybeSender, pos: Nat, done: BOOLEAN,
             last: EventKind \cup {None}, phase: SessionStatus \cup {"error"}]
StopCall == [pc: StopPC, task: MaybeSender]

TypeOK ==
    /\ doc \in Session
    /\ registry \subseteq Senders
    /\ tasks \in [Senders -> Task]
    /\ runs \in [Senders -> Run]
    /\ stopped \subseteq Senders
    /\ chats \in [Clients -> ChatCall]
    /\ stops \in [Stops -> StopCall]
    /\ restarts \in 0..MaxRestarts

NewSession == [status |-> "pending", task |-> None, sandbox |-> FALSE, history |-> {}]
NewTask == [input |-> <<>>, output |-> <<>>, built |-> FALSE, execution |-> None]
NewRun == [pc |-> "none", task |-> None, msg |-> None, count |-> 0, beside |-> FALSE]
NewChat == [pc |-> "idle", snap |-> NewSession, task |-> None, pos |-> 0,
            done |-> FALSE, last |-> None, phase |-> "pending"]

Init ==
    /\ doc = NewSession
    /\ registry = {}
    /\ tasks = [t \in Senders |-> NewTask]
    /\ runs = [e \in Senders |-> NewRun]
    /\ stopped = {}
    /\ chats = [c \in Clients |-> NewChat]
    /\ stops = [s \in Stops |-> [pc |-> "idle", task |-> None]]
    /\ restarts = 0

---------------------------------------------------------------------------
(* The document and the task.                                              *)

\* A fault of Completed: the status word of the Celery task metadata.
CompletedAsTask(session) == [session EXCEPT !.status = "done"]

\* update_status(session_id, SessionStatus.COMPLETED)
Completed(session) == [session EXCEPT !.status = "completed"]

\* Faults of Done: a task is done once its session status is written, and a
\* task that was never run is not done.
DoneOnceWritten(t) ==
    tasks[t].execution # None =>
        runs[tasks[t].execution].pc \in {"written", "exit", "dead"}
DoneOnlyIfRun(t) ==
    tasks[t].execution # None /\ runs[tasks[t].execution].pc = "dead"

\* RedisStreamTask._done: no execution yet, or the latest one has finished.
Done(t) == tasks[t].execution # None => runs[tasks[t].execution].pc = "dead"

\* A fault of Unregistered: a finished or cancelled task stays.
StillRegistered(t) == registry

\* _cleanup_registry
Unregistered(t) == registry \ {t}

Live(e) == runs[e].pc \notin {"none", "dead"}
Executing(t) == \E e \in Senders : Live(e) /\ runs[e].task = t

\* self._runner is set and asyncio.create_task(self._execute_task()) called,
\* on behalf of sender c.
StartExecution(c, t) ==
    /\ tasks' = [tasks EXCEPT ![t].built = TRUE, ![t].execution = c]
    /\ runs' = [runs EXCEPT ![c].pc = "scheduled", ![c].task = t, ![c].beside = Executing(t)]

\* Where a CancelledError takes an execution that has not finished: nowhere
\* when its body has not begun, out of an except block, else into the handler.
Interrupted(pc) ==
    CASE pc = "scheduled" -> "dead"
      [] pc \in {"failing", "cancelling", "closing", "exit"} -> "exit"
      [] OTHER -> "cancelling"

---------------------------------------------------------------------------
(* AgentTaskRunner.run, one execution e.                                   *)

Goto(e, pc) == runs' = [runs EXCEPT ![e].pc = pc]

Input(e) == tasks[runs[e].task].input

\* _put_and_add_event: the event is appended to the task's output stream.
Put(e, kind) == tasks' = [tasks EXCEPT ![runs[e].task].output = Append(@, kind)]

\* The body begins; a session whose model cannot be resolved is refused.
RunnerStart(e) ==
    /\ runs[e].pc = "scheduled"
    /\ \E pc \in {"loop", "refuse"} : Goto(e, pc)
    /\ UNCHANGED <<doc, registry, tasks>>

RunnerRefuse(e) ==
    /\ runs[e].pc = "refuse"
    /\ Put(e, "error")
    /\ Goto(e, "finish")
    /\ UNCHANGED <<doc, registry>>

\* while not await task.input_stream.is_empty()
RunnerLoop(e) ==
    /\ runs[e].pc = "loop"
    /\ Goto(e, IF Input(e) = <<>> THEN "finish" ELSE "pop")
    /\ UNCHANGED <<doc, registry, tasks>>

\* The sandbox is made ready and the oldest message popped.
RunnerPop(e) ==
    /\ runs[e].pc = "pop"
    /\ Input(e) # <<>>
    /\ runs' = [runs EXCEPT ![e].pc = "begin", ![e].msg = Head(Input(e)), ![e].count = 0]
    /\ tasks' = [tasks EXCEPT ![runs[e].task].input = Tail(@)]
    /\ UNCHANGED <<doc, registry>>

\* Another execution of the task took the message: pop() returns None, which
\* run() fails on.
RunnerPopNothing(e) ==
    /\ runs[e].pc = "pop"
    /\ Input(e) = <<>>
    /\ Goto(e, "failing")
    /\ UNCHANGED <<doc, registry, tasks>>

\* A flow begins: PlanActFlow.run marks the session RUNNING, _run_chat reads
\* the history the model is asked with and leaves the status alone.
RunnerBegin(e) ==
    /\ runs[e].pc = "begin"
    /\ doc' = IF ChatMode THEN doc ELSE [doc EXCEPT !.status = "running"]
    /\ runs' = [runs EXCEPT ![e].pc = "flow", ![e].msg = None]
    /\ UNCHANGED <<registry, tasks>>

\* The flow yields an event and goes on. An error here is one of a step or a
\* tool, so none of a chat: it ends the streams that read it, not the flow.
RunnerEmit(e) ==
    /\ runs[e].pc = "flow"
    /\ runs[e].count < MaxEvents
    /\ \E kind \in {"message", "error"} : (ChatMode => kind = "message") /\ Put(e, kind)
    /\ runs' = [runs EXCEPT ![e].pc = "more", ![e].count = @ + 1]
    /\ UNCHANGED <<doc, registry>>

\* The flow yields its last event: DoneEvent.
RunnerEmitDone(e) ==
    /\ runs[e].pc = "flow"
    /\ Put(e, "done")
    /\ Goto(e, "ended")
    /\ UNCHANGED <<doc, registry>>

\* The flow asks the user: WaitEvent reaches the stream before the session
\* is marked WAITING. A chat-mode flow has no tools to ask with.
RunnerEmitWait(e) ==
    /\ runs[e].pc = "flow"
    /\ ~ChatMode
    /\ Put(e, "wait")
    /\ Goto(e, "setwaiting")
    /\ UNCHANGED <<doc, registry>>

RunnerSetWaiting(e) ==
    /\ runs[e].pc = "setwaiting"
    /\ doc' = [doc EXCEPT !.status = "waiting"]
    /\ Goto(e, "written")
    /\ UNCHANGED <<registry, tasks>>

\* if not await task.input_stream.is_empty(): break -- a new message abandons
\* the rest of the flow.
RunnerMore(e) ==
    /\ runs[e].pc = "more"
    /\ Goto(e, IF Input(e) = <<>> THEN "flow" ELSE "loop")
    /\ UNCHANGED <<doc, registry, tasks>>

\* The same check after the flow's last event: the outer loop is next anyhow.
RunnerEnded(e) ==
    /\ runs[e].pc = "ended"
    /\ Goto(e, "loop")
    /\ UNCHANGED <<doc, registry, tasks>>

Raise(e, handler) ==
    /\ runs[e].pc \in {"pop", "begin", "flow"}
    /\ Goto(e, handler)
    /\ UNCHANGED <<doc, registry, tasks>>

\* Faults of RunnerRaise: the except block reports nothing, and there is none.
RunnerRaiseUnreported(e) == Raise(e, "closing")
RunnerRaiseUncaught(e) == Raise(e, "exit")

\* Docker, MCP, the model or a repository raises inside the try block.
RunnerRaise(e) == Raise(e, "failing")

\* The except blocks put their event, then complete the session.
RunnerHandle(e) ==
    /\ runs[e].pc \in {"failing", "cancelling"}
    /\ Put(e, IF runs[e].pc = "failing" THEN "error" ELSE "done")
    /\ Goto(e, "closing")
    /\ UNCHANGED <<doc, registry>>

RunnerComplete(e) ==
    /\ runs[e].pc \in {"finish", "closing"}
    /\ doc' = Completed(doc)
    /\ Goto(e, IF runs[e].pc = "finish" THEN "written" ELSE "exit")
    /\ UNCHANGED <<registry, tasks>>

\* run() returns; _execute_task's finally block drops the task.
RunnerExit(e) ==
    /\ runs[e].pc \in {"written", "exit"}
    /\ runs' = [runs EXCEPT ![e].pc = "dead", ![e].msg = None, ![e].count = 0]
    /\ registry' = Unregistered(runs[e].task)
    /\ UNCHANGED <<doc, tasks>>

Runner(e) ==
    /\ \/ RunnerStart(e) \/ RunnerRefuse(e) \/ RunnerLoop(e)
       \/ RunnerPop(e) \/ RunnerPopNothing(e) \/ RunnerBegin(e)
       \/ RunnerEmit(e) \/ RunnerEmitDone(e) \/ RunnerEmitWait(e)
       \/ RunnerSetWaiting(e) \/ RunnerMore(e) \/ RunnerEnded(e)
       \/ RunnerRaise(e) \/ RunnerHandle(e) \/ RunnerComplete(e) \/ RunnerExit(e)
    /\ UNCHANGED <<stopped, chats, stops, restarts>>

---------------------------------------------------------------------------
(* AgentDomainService.chat, one call c, read by chat_ws.stream_session.    *)

InProgress(c) == chats[c].pc \notin {"idle", "closed", "aborted"}

Step(c, pc) == chats' = [chats EXCEPT ![c].pc = pc]

\* A fault of MayStart: the next chat frame leaves the old stream running.
MayStartBeside(c) == chats[c].pc = "idle"

\* One WebSocket cancels its stream before it starts another.
MayStart(c) ==
    /\ chats[c].pc = "idle"
    /\ SingleConnection => \A d \in Clients : ~InProgress(d)

\* A chat frame is answered with status_update(running) and starts chat();
\* join_session does so for a session that it reads as running.
OpenStream(c) ==
    /\ MayStart(c)
    /\ c \in Joiners => doc.status = "running"
    /\ chats' = [chats EXCEPT ![c].pc = "find", ![c].phase = "running"]
    /\ UNCHANGED <<doc, registry, tasks, runs, stopped, stops, restarts>>

ChatFind(c) ==
    /\ chats[c].pc = "find"
    /\ chats' = [chats EXCEPT ![c].pc = "lookup", ![c].snap = doc]
    /\ UNCHANGED <<doc, registry, tasks, runs>>

\* A fault of NeedsTask: a running session whose task is lost gets a new one.
NeedsTaskIfLost(c) ==
    /\ c \in Senders
    /\ chats[c].snap.status # "running" \/ chats[c].snap.task \notin registry

\* if session.status != SessionStatus.RUNNING
NeedsTask(c) == c \in Senders /\ chats[c].snap.status # "running"

\* The document that was read is not used any more.
Forget(call) == [call EXCEPT !.snap = NewSession]

\* The except block: an ErrorEvent is recorded and yielded.
Failed(call) == [Forget(call) EXCEPT !.pc = "report", !.last = "error"]

\* _get_task on the task id that was read: only a registered task is found.
\* Without one a joiner's loop does not run, and a message for a running
\* session fails on None. The client replays the stream or reads what is new.
ChatLookup(c) ==
    /\ chats[c].pc = "lookup"
    /\ LET t == chats[c].snap.task IN
       \/ /\ NeedsTask(c)
          /\ Step(c, "create")
       \/ /\ ~NeedsTask(c) /\ t \in registry
          /\ \E p \in {0, Len(tasks[t].output)} :
                chats' = [chats EXCEPT ![c] =
                    [Forget(@) EXCEPT !.pc = IF c \in Senders THEN "put" ELSE "poll",
                                      !.task = t, !.pos = p]]
       \/ /\ ~NeedsTask(c) /\ t \notin registry
          /\ chats' = [chats EXCEPT ![c] = IF c \in Senders THEN Failed(@)
                                           ELSE [Forget(@) EXCEPT !.pc = "report"]]
    /\ UNCHANGED <<doc, registry, tasks, runs>>

\* _create_task, first half: a session without a sandbox gets one, and is
\* saved whole as it was read.
ChatCreateSandbox(c) ==
    /\ chats[c].pc = "create"
    /\ ~chats[c].snap.sandbox
    /\ chats' = [chats EXCEPT ![c].snap.sandbox = TRUE]
    /\ doc' = [chats[c].snap EXCEPT !.sandbox = TRUE]
    /\ UNCHANGED <<registry, tasks, runs>>

\* _create_task, second half: the task registers itself and the session is
\* saved whole with its id.
ChatCreateTask(c) ==
    /\ chats[c].pc = "create"
    /\ chats[c].snap.sandbox
    /\ registry' = registry \cup {c}
    /\ doc' = [chats[c].snap EXCEPT !.task = c]
    /\ chats' = [chats EXCEPT ![c] = [Forget(@) EXCEPT !.pc = "put", !.task = c]]
    /\ UNCHANGED <<tasks, runs>>

ChatPut(c) ==
    /\ chats[c].pc = "put"
    /\ tasks' = [tasks EXCEPT ![chats[c].task].input = Append(@, c)]
    /\ Step(c, "record")
    /\ UNCHANGED <<doc, registry, runs>>

\* add_event
ChatRecord(c) ==
    /\ chats[c].pc = "record"
    /\ doc' = [doc EXCEPT !.history = @ \cup {c}]
    /\ Step(c, "run")
    /\ UNCHANGED <<registry, tasks, runs>>

\* RedisStreamTask.run: a live execution is left to find the message; a task
\* that ran before starts again; a new one needs its runner first.
ChatRun(c) ==
    /\ chats[c].pc = "run"
    /\ LET t == chats[c].task IN
       \/ /\ ~Done(t)
          /\ Step(c, "poll")
          /\ UNCHANGED <<tasks, runs>>
       \/ /\ Done(t) /\ tasks[t].built
          /\ Step(c, "poll")
          /\ StartExecution(c, t)
       \/ /\ Done(t) /\ ~tasks[t].built
          /\ Step(c, "build")
          /\ UNCHANGED <<tasks, runs>>
    /\ UNCHANGED <<doc, registry>>

\* create_runner returns; whatever happened meanwhile, the execution starts.
ChatBuild(c) ==
    /\ chats[c].pc = "build"
    /\ StartExecution(c, chats[c].task)
    /\ Step(c, "poll")
    /\ UNCHANGED <<doc, registry>>

\* sandbox_cls.get or create, or create_runner, raises.
ChatRaise(c) ==
    /\ chats[c].pc \in {"create", "build"}
    /\ chats' = [chats EXCEPT ![c] = Failed(@)]
    /\ UNCHANGED <<doc, registry, tasks, runs>>

\* task_done = await task.is_done()
ChatPoll(c) ==
    /\ chats[c].pc = "poll"
    /\ chats' = [chats EXCEPT ![c].pc = "read", ![c].done = Done(chats[c].task)]
    /\ UNCHANGED <<doc, registry, tasks, runs>>

\* await task.output_stream.get: the event after latest_event_id is yielded;
\* with none in time the stream of a task that was done is drained. The
\* WebSocket turns a WaitEvent into status_update(waiting).
ChatRead(c) ==
    /\ chats[c].pc = "read"
    /\ LET out == tasks[chats[c].task].output
           pos == chats[c].pos
           event == out[pos + 1]
       IN
       \/ /\ pos < Len(out)
          /\ chats' = [chats EXCEPT
                ![c].pc = IF event \in Terminal THEN "report" ELSE "poll",
                ![c].pos = pos + 1, ![c].done = FALSE, ![c].last = event,
                ![c].phase = IF event = "wait" THEN "waiting" ELSE chats[c].phase]
       \/ /\ pos >= Len(out)
          /\ chats' = [chats EXCEPT
                ![c].pc = IF chats[c].done THEN "report" ELSE "poll", ![c].done = FALSE]
    /\ UNCHANGED <<doc, registry, tasks, runs>>

\* stream_session after the loop: the session's status is read back and sent
\* ahead of stream_end.
StreamEnd(c) ==
    /\ chats[c].pc = "report"
    /\ chats' = [chats EXCEPT
          ![c].pc = "closed", ![c].pos = 0,
          ![c].phase = IF chats[c].last = "error" /\ doc.status # "waiting"
                       THEN "error" ELSE doc.status]
    /\ UNCHANGED <<doc, registry, tasks, runs>>

\* cancel_stream: the client leaves, disconnects or sends its next message.
CancelStream(c) ==
    /\ InProgress(c)
    /\ chats' = [chats EXCEPT ![c] = [NewChat EXCEPT !.pc = "aborted"]]
    /\ UNCHANGED <<doc, registry, tasks, runs, stopped, stops, restarts>>

Chat(c) ==
    /\ \/ ChatFind(c) \/ ChatLookup(c) \/ ChatCreateSandbox(c) \/ ChatCreateTask(c)
       \/ ChatPut(c) \/ ChatRecord(c) \/ ChatRun(c) \/ ChatBuild(c) \/ ChatRaise(c)
       \/ ChatPoll(c) \/ ChatRead(c) \/ StreamEnd(c)
    /\ UNCHANGED <<stopped, stops, restarts>>

---------------------------------------------------------------------------
(* AgentDomainService.stop_session, one call s.                            *)

StopFind(s) ==
    /\ stops[s].pc = "idle"
    /\ stops' = [stops EXCEPT ![s] = [pc |-> "cancel", task |-> doc.task]]
    /\ UNCHANGED <<doc, registry, tasks, runs, stopped, chats, restarts>>

\* _get_task and RedisStreamTask.cancel on what stop_session read: a
\* registered task is dropped, and its execution, if it is not done, gets a
\* CancelledError.
CancelTask(t) ==
    /\ registry' = Unregistered(t)
    /\ IF t \in registry /\ ~Done(t)
       THEN LET e == tasks[t].execution IN
            /\ Goto(e, Interrupted(runs[e].pc))
            /\ stopped' = stopped \cup {e}
       ELSE UNCHANGED <<runs, stopped>>

StopCancelThen(s, pc) ==
    /\ stops[s].pc = "cancel"
    /\ CancelTask(stops[s].task)
    /\ stops' = [stops EXCEPT ![s] = [pc |-> pc, task |-> None]]
    /\ UNCHANGED <<doc, tasks, chats, restarts>>

\* A fault of StopCancel: without a task there is nothing to stop.
StopCancelOnlyTask(s) ==
    StopCancelThen(s, IF stops[s].task \in registry THEN "complete" ELSE "closed")

StopCancel(s) == StopCancelThen(s, "complete")

StopComplete(s) ==
    /\ stops[s].pc = "complete"
    /\ doc' = Completed(doc)
    /\ stops' = [stops EXCEPT ![s].pc = "closed"]
    /\ UNCHANGED <<registry, tasks, runs, stopped, chats, restarts>>

---------------------------------------------------------------------------
\* The API process dies: MongoDB and Redis keep the document and the
\* streams, everything else of every coroutine is gone.
Restart ==
    /\ restarts < MaxRestarts
    /\ restarts' = restarts + 1
    /\ registry' = {}
    /\ runs' = [e \in Senders |->
                   IF runs[e].pc = "none" THEN runs[e]
                   ELSE [runs[e] EXCEPT !.pc = "dead", !.msg = None, !.count = 0]]
    /\ chats' = [c \in Clients |->
                   IF InProgress(c) THEN [NewChat EXCEPT !.pc = "aborted"] ELSE chats[c]]
    /\ stops' = [s \in Stops |->
                   IF stops[s].pc = "idle" THEN stops[s] ELSE [pc |-> "closed", task |-> None]]
    /\ tasks' = [t \in Senders |-> [tasks[t] EXCEPT !.built = FALSE, !.execution = None]]
    /\ UNCHANGED <<doc, stopped>>

Next ==
    \/ \E e \in Senders : Runner(e)
    \/ \E c \in Clients : OpenStream(c) \/ Chat(c) \/ CancelStream(c)
    \/ \E s \in Stops : StopFind(s) \/ StopCancel(s) \/ StopComplete(s)
    \/ Restart

Spec == Init /\ [][Next]_vars

\* The event loop resumes every coroutine whose await has returned; Docker,
\* MCP and the model answer or time out. Nobody has to send, join, leave,
\* stop or crash.
StopFairness(s) == WF_vars(StopCancel(s) \/ StopComplete(s))

FairSpec ==
    /\ Spec
    /\ \A e \in Senders : WF_vars(Runner(e))
    /\ \A c \in Clients : WF_vars(Chat(c))
    /\ \A s \in Stops : StopFairness(s)

---------------------------------------------------------------------------
(* Properties.                                                             *)

\* An execution that still has a final session status to write.
Attending(e) == runs[e].pc \notin {"none", "scheduled", "written", "exit", "dead"}

\* A session is never left RUNNING with nobody who will change that: as long
\* as the process lives, an execution that will write COMPLETED or WAITING, or
\* a stop_session about to write COMPLETED, is under way. Otherwise every
\* later message fails on a task that the registry no longer holds.
RunningIsAttended ==
    doc.status = "running" /\ restarts = 0 =>
        \/ \E e \in Senders : Attending(e)
        \/ \E s \in Stops : stops[s].pc = "complete"

\* The registry holds no finished task: whoever finds a task there can still
\* stop its execution, or precedes it.
RegisteredIsUnfinished ==
    \A t \in registry : tasks[t].execution # None => runs[tasks[t].execution].pc # "dead"

\* chat() gives its client an ending: a call that created its own task
\* closes on a terminal event, unless stop_session cancelled an execution of
\* that task, or two executions of it took each other's messages. This is what
\* the order of is_done() and output_stream.get() and the events of the except
\* blocks are for.
OwnTaskAnswered ==
    \A c \in Senders :
        chats[c].pc = "closed" /\ chats[c].task = c =>
            \/ chats[c].last \in Terminal
            \/ \E e \in Senders : runs[e].task = c /\ (e \in stopped \/ runs[e].beside)

\* Two executions of one task would share its streams: RedisStreamTask.run
\* lets this happen only across WebSocket connections.
OneExecutionPerTask ==
    SingleConnection =>
        \A e, f \in Senders :
            Live(e) /\ Live(f) /\ runs[e].task = runs[f].task => e = f

\* In chat mode the model is asked with the history of the session document,
\* to which the message itself must have been added by then and from which no
\* stale save may have removed it.
PromptHasMessage ==
    SingleConnection /\ ChatMode =>
        \A e \in Senders : runs[e].pc = "begin" => runs[e].msg \in doc.history

\* A stream never runs past its task: every call of chat() ends.
StreamsEnd == \A c \in Clients : InProgress(c) ~> ~InProgress(c)

\* Whatever calls overlap, the session comes to rest in another status than
\* RUNNING for good.
SessionSettles == <>[](doc.status # "running")

\* stop_session also frees a session that a crash left RUNNING, whose task no
\* registry holds any more: once begun, and not lost in a crash itself, it
\* brings the session out of RUNNING.
StopFrees ==
    \A s \in Stops :
        restarts = MaxRestarts /\ stops[s].pc = "cancel" ~> doc.status # "running"

\* docs/en/architecture.md: the server receives a message "and forwards" it to
\* the agent: once nothing executes a task any more, no message whose sender
\* was not told an error waits in its task's input, unless the user stopped it.
MessagesForwarded ==
    stopped = {} /\ restarts = 0 =>
        \A c \in Senders :
            chats[c].pc = "closed" /\ chats[c].last # "error" =>
                \/ \E e \in Senders : Live(e)
                \/ \A i \in DOMAIN tasks[chats[c].task].input :
                        tasks[chats[c].task].input[i] # c
=============================================================================
