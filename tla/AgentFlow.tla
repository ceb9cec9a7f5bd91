------------------------------ MODULE AgentFlow ------------------------------
(***************************************************************************)
(* The work of one agent session: PlanActFlow.run, the planner and the     *)
(* execution agent it drives, the agent loop both share                    *)
(* (BaseAgent.execute), their conversation memories, and the part of       *)
(* AgentTaskRunner.run that abandons a flow when the user writes again.    *)
(*                                                                         *)
(* A runner lives from the message that starts it until the session waits, *)
(* completes, is stopped, or the process dies; the plan it reloads is the  *)
(* one of the last PlanEvent stored. How messages reach a runner, and what *)
(* two runners of one session do to each other, is the subject of          *)
(* AgentSession: here there is one at a time.                              *)
(*                                                                         *)
(* A memory is abstracted to what keeps it acceptable to a model provider: *)
(* the tool calls of its last message, if that message makes any, and      *)
(* whether calls without a result lie under later messages. A save follows *)
(* every change of a memory with nothing but an await between them, so a   *)
(* memory stands for both its copies.                                      *)
(***************************************************************************)
EXTENDS Naturals, Sequences, FiniteSets

CONSTANTS MaxMessages,    \* messages the user sends
          MaxSteps,       \* steps the planner submits at a time
          MaxIds,         \* steps it submits in all
          MaxBatch,       \* tool calls in one reply of the model
          MaxIterations,  \* BaseAgent.max_iterations
          MaxNudges       \* BaseAgent.max_consecutive_no_tool_call_nudges

ASSUME FlowConstants ==
    /\ MaxMessages \in Nat /\ MaxSteps \in Nat /\ MaxIds \in Nat
    /\ MaxBatch \in Nat \ {0} /\ MaxIterations \in Nat \ {0}
    /\ MaxNudges \in Nat

VARIABLES
    doc,        \* session.status
    inbox,      \* messages in the task's input stream
    runner,     \* "none", "between" two flows, or in a "flow"
    status,     \* PlanActFlow.status
    plan,       \* PlanActFlow.plan.steps
    recorded,   \* the steps in the last PlanEvent of the session document
    step,       \* index of the step PlanActFlow.run holds
    memory,     \* the memory of each agent
    loop,       \* the call of BaseAgent.execute in progress
    sent, ids,
    \* History.
    finished,   \* steps whose execution has ended
    asker,      \* the step that asked the user, until it ends or is dropped
    unrecorded, \* a plan update failed and no PlanEvent followed it
    cut         \* agents whose memory was left with calls it cannot answer

session == <<doc, inbox, runner, sent>>
progress == <<status, plan, recorded, step, ids>>
history == <<finished, asker, unrecorded>>
flowVars == <<session, progress, memory, loop, history, cut>>

Agents == {"planner", "execution"}
\* What a tool call is to the loop: a tool that runs, message_ask_user, the
\* output tool with valid or invalid arguments, or a tool nobody knows.
Call == {"work", "ask", "out", "bad", "unknown"}
PlannerCall == {"out", "bad", "unknown"}      \* the planner is given no tools
Operation == {"none", "plan", "step", "update", "summary"}
LoopAt == {"off", "ask", "calls", "asking", "result", "announce",
           "failed"}
FlowStatus == {"idle", "planning", "executing", "updating", "summarizing", "completed"}
StepStatus == {"pending", "running", "failed", "completed"}
Step == [id: 1..MaxIds, status: StepStatus]

AgentOf(op) == IF op \in {"plan", "update"} THEN "planner" ELSE "execution"
Batches(op) == UNION {[1..n -> IF AgentOf(op) = "planner" THEN PlannerCall ELSE Call] :
                      n \in 1..MaxBatch}

FlowTypeOK ==
    /\ doc \in {"pending", "running", "waiting", "completed"}
    /\ inbox \in 0..MaxMessages
    /\ runner \in {"none", "between", "flow"}
    /\ status \in FlowStatus
    /\ plan \in Seq(Step) /\ recorded \in Seq(Step)
    /\ step \in 0..Len(plan)
    /\ memory \in [Agents -> [open: Seq(Call), broken: BOOLEAN]]
    /\ loop \in [op: Operation, at: LoopAt, call: Nat, output: BOOLEAN,
                 streak: 0..MaxNudges + 1, turns: 0..MaxIterations]
    /\ sent \in 0..MaxMessages /\ ids \in 0..MaxIds
    /\ finished \subseteq 1..MaxIds
    /\ asker \in 0..MaxIds
    /\ unrecorded \in BOOLEAN
    /\ cut \subseteq Agents

NoLoop == [op |-> "none", at |-> "off", call |-> 0, output |-> FALSE,
           streak |-> 0, turns |-> 0]

FlowInit ==
    /\ doc = "pending" /\ inbox = 0 /\ runner = "none"
    /\ status = "idle" /\ plan = <<>> /\ recorded = <<>> /\ step = 0
    /\ memory = [a \in Agents |-> [open |-> <<>>, broken |-> FALSE]]
    /\ loop = NoLoop
    /\ sent = 0 /\ ids = 0
    /\ finished = {} /\ asker = 0 /\ unrecorded = FALSE /\ cut = {}

-----------------------------------------------------------------------------
(* Memories.                                                               *)

\* add_messages of anything but the results of the open calls
AddOther(m) == [open |-> <<>>, broken |-> m.broken \/ m.open # <<>>]
\* add_messages of one result for every open call
AddResults(m) == [m EXCEPT !.open = <<>>]
AddReply(m, calls) == [AddOther(m) EXCEPT !.open = calls]

\* A fault of RollBack: a message whose first call is no question is kept.
RollBackAskOnly(m) ==
    IF m.open # <<>> /\ Head(m.open) = "ask"
    THEN [open |-> <<>>, broken |-> m.broken \/ Len(m.open) > 1]
    ELSE m

\* BaseAgent.roll_back answers the first call of the last message if it is
\* message_ask_user, and drops the message if it is any other call.
RollBack(m) ==
    IF m.open # <<>> /\ Head(m.open) = "ask"
    THEN [open |-> <<>>, broken |-> m.broken \/ Len(m.open) > 1]
    ELSE [m EXCEPT !.open = <<>>]

\* message_ask_user answered without the other calls of its message
HalfAnswered(m) == Len(m.open) > 1 /\ Head(m.open) = "ask"

-----------------------------------------------------------------------------
(* Plans.                                                                  *)

IsDone(s) == s.status \in {"completed", "failed"}
Pending(p) == {i \in DOMAIN p : ~IsDone(p[i])}

\* Plan.get_next_step: 0 is None.
NextStep(p) ==
    IF Pending(p) = {} THEN 0
    ELSE CHOOSE i \in Pending(p) : \A j \in Pending(p) : i <= j

NewSteps(n) == [i \in 1..n |-> [id |-> ids + i, status |-> "pending"]]

\* PlannerAgent.update_plan: the new steps replace those from the first one
\* that is not done; without such a step they are dropped.
Updated(p, new) ==
    IF Pending(p) = {} THEN p ELSE SubSeq(p, 1, NextStep(p) - 1) \o new

-----------------------------------------------------------------------------
(* The user and the runner.                                                *)

\* The runner is gone, and the flow object with it.
Gone ==
    /\ runner' = "none" /\ loop' = NoLoop
    /\ status' = "idle" /\ plan' = <<>> /\ step' = 0

\* The flow yields an event in the state `next` of its loop, and the runner puts
\* it. If the user wrote in the meantime the runner breaks out of the flow, to
\* begin another run of the same flow object; a message that comes while the
\* event is put is one that came just before.
Yield(next, asking) ==
    IF inbox > 0 THEN runner' = "between" /\ loop' = NoLoop /\ asker' = 0
    ELSE loop' = next /\ asker' = asking /\ UNCHANGED runner

\* chat() with a message. A session that is not running gets a new task, and
\* with it a new runner and a new flow.
Message ==
    /\ sent < MaxMessages
    /\ sent' = sent + 1
    /\ IF doc = "running" THEN inbox' = inbox + 1 ELSE runner = "none" /\ inbox' = 1
    /\ runner' = IF runner = "none" THEN "between" ELSE runner
    /\ UNCHANGED <<doc, progress, memory, loop, history, cut>>

\* A fault of Resumed: an answer is taken for a new task.
ResumedAsNew(old) == IF old = "running" THEN "planning" ELSE status

\* Where PlanActFlow.run starts, by the status of the session it found.
Resumed(old) ==
    CASE old = "running" -> "planning"
      [] old = "waiting" -> "executing"
      [] OTHER -> status

\* PlanActFlow.run up to its loop, on the next message of the input stream
BeginFlow ==
    /\ runner = "between" /\ inbox > 0
    /\ inbox' = inbox - 1 /\ runner' = "flow"
    /\ IF doc = "pending" THEN UNCHANGED <<memory, cut>>
       ELSE /\ memory' = [a \in Agents |-> RollBack(memory[a])]
            /\ cut' = cut \cup {a \in Agents : HalfAnswered(memory[a])}
    /\ status' = Resumed(doc)
    /\ doc' = "running" /\ plan' = recorded /\ step' = 0
    /\ UNCHANGED <<recorded, ids, sent, loop, history>>

\* The loop of AgentTaskRunner.run finds its input stream empty.
EndRunner ==
    /\ runner = "between" /\ inbox = 0
    /\ Gone /\ doc' = "completed"
    /\ UNCHANGED <<inbox, sent, recorded, ids, memory, history, cut>>

\* An exception of the model, the sandbox or a repository, and the AttributeError
\* of a plan that was not created
Raise ==
    /\ runner # "none"
    /\ Gone /\ inbox' = 0 /\ doc' = "completed" /\ asker' = 0
    /\ UNCHANGED <<sent, recorded, ids, memory, finished, unrecorded, cut>>

\* stop_session, which cancels the execution if there is one
Stop ==
    /\ Gone /\ inbox' = 0 /\ doc' = "completed" /\ asker' = 0
    /\ UNCHANGED <<sent, recorded, ids, memory, finished, unrecorded, cut>>

\* The process dies. The Redis stream and the documents outlive it.
Die ==
    /\ runner # "none"
    /\ Gone /\ asker' = 0
    /\ UNCHANGED <<doc, inbox, sent, recorded, ids, memory, finished, unrecorded, cut>>

-----------------------------------------------------------------------------
(* The states of PlanActFlow.run, up to the first await of each.           *)

Idle == runner = "flow" /\ loop.at = "off"

\* BaseAgent.execute: the request enters the memory and is sent to the model.
Asking(op) == [NoLoop EXCEPT !.op = op, !.at = "ask"]
Request(op) ==
    memory' =
        [memory EXCEPT ![AgentOf(op)] = AddOther(memory[AgentOf(op)])]

StartPlanning ==
    /\ Idle /\ status \in {"idle", "planning"}
    /\ status' = "planning"
    /\ loop' = Asking("plan") /\ Request("plan")
    /\ UNCHANGED <<session, plan, recorded, step, ids, history, cut>>

StartStep ==
    /\ Idle /\ status = "executing" /\ NextStep(plan) # 0
    /\ step' = NextStep(plan)
    /\ plan' = [plan EXCEPT ![NextStep(plan)].status = "running"]
    /\ IF inbox > 0 THEN UNCHANGED memory ELSE Request("step")
    /\ Yield(Asking("step"), asker)
    /\ UNCHANGED <<doc, inbox, sent, status, recorded, ids, finished, unrecorded,
                   cut>>

StartSummary ==
    /\ Idle
    /\ status = "summarizing" \/ (status = "executing" /\ NextStep(plan) = 0)
    /\ status' = "summarizing"
    /\ loop' = Asking("summary") /\ Request("summary")
    /\ UNCHANGED <<session, plan, recorded, step, ids, history, cut>>

StartUpdate ==
    /\ Idle /\ status = "updating"
    /\ loop' = Asking("update") /\ Request("update")
    /\ UNCHANGED <<session, progress, history, cut>>

\* PlanEvent(COMPLETED), then IDLE and DoneEvent. A message found at the first
\* event leaves the flow in COMPLETED, one found at the second in IDLE: both
\* are overwritten by the next run of the flow.
Complete ==
    /\ Idle /\ status = "completed"
    /\ recorded' = plan /\ unrecorded' = FALSE
    /\ status' = "idle" /\ runner' = "between" /\ asker' = 0
    /\ UNCHANGED <<doc, inbox, sent, plan, step, ids, memory, loop, finished, cut>>

-----------------------------------------------------------------------------
(* The loop of BaseAgent.execute.                                          *)

Looping(at) == runner = "flow" /\ loop.at = at
Me == AgentOf(loop.op)
Remember(m) == memory' = [memory EXCEPT ![Me] = m]
TheCall == memory[Me].open[loop.call]

\* A fault of Iterated: invalid output does not use up an iteration.
IteratedNot == loop.turns
Iterated == loop.turns + 1

\* A fault of Ends: one iteration more than there are.
EndsLate(calls) ==
    \/ loop.turns > MaxIterations
    \/ calls = <<>> /\ loop.streak >= MaxNudges

\* The model is given up on: the iterations are used up, or it answered in
\* plain text once more than it may.
Ends(calls) ==
    \/ loop.turns = MaxIterations
    \/ calls = <<>> /\ loop.streak >= MaxNudges

\* execute_step takes an ErrorEvent for the failure of its step.
StepFails == IF loop.op = "step" THEN [plan EXCEPT ![step].status = "failed"] ELSE plan

\* The model replies with tool calls, or with plain text (calls = <<>>) for
\* which it is nudged to use the output tool.
Reply ==
    /\ Looping("ask")
    /\ \E calls \in Batches(loop.op) \cup {<<>>} :
        /\ Remember(AddReply(memory[Me], calls))
        /\ IF Ends(calls)
           THEN /\ Yield([loop EXCEPT !.at = "failed"], asker)
                /\ cut' = IF calls = <<>> THEN cut ELSE cut \cup {Me}
                /\ plan' = StepFails
           ELSE /\ loop' = IF calls = <<>>
                           THEN [loop EXCEPT !.streak = loop.streak + 1,
                                             !.turns = Iterated]
                           ELSE [loop EXCEPT !.at = "calls", !.call = 1, !.streak = 0,
                                             !.output = FALSE]
                /\ UNCHANGED <<runner, asker, cut, plan>>
    /\ UNCHANGED <<doc, inbox, sent, status, recorded, step, ids, finished,
                   unrecorded>>

\* The output tool is not run: its arguments are validated. A later call of it
\* in the same message replaces the result of an earlier one.
HandleOutputCall ==
    /\ Looping("calls") /\ loop.call <= Len(memory[Me].open)
    /\ TheCall \in {"out", "bad"}
    /\ loop' = [loop EXCEPT !.call = loop.call + 1, !.output = (TheCall = "out")]
    /\ UNCHANGED <<session, progress, memory, history, cut>>

UnknownTool ==
    /\ Looping("calls") /\ loop.call <= Len(memory[Me].open)
    /\ TheCall = "unknown"
    /\ Yield([loop EXCEPT !.call = loop.call + 1], asker)
    /\ plan' = StepFails
    /\ UNCHANGED <<doc, inbox, sent, status, recorded, step, ids, memory,
                   finished, unrecorded, cut>>

\* A CALLING event, the tool with its retries, a CALLED event. What the tool
\* raises becomes its result.
InvokeTool ==
    /\ Looping("calls") /\ loop.call <= Len(memory[Me].open)
    /\ TheCall = "work" \/ (TheCall = "ask" /\ loop.op = "summary")
    /\ Yield([loop EXCEPT !.call = loop.call + 1], asker)
    /\ UNCHANGED <<doc, inbox, sent, progress, memory, finished, unrecorded, cut>>

\* execute_step shows the question, and when the tool has been called makes the
\* session wait: the loop is abandoned in the middle of the calls.
AskUser ==
    /\ Looping("calls") /\ loop.call <= Len(memory[Me].open)
    /\ TheCall = "ask" /\ loop.op = "step"
    /\ Yield([loop EXCEPT !.at = "asking"], asker)
    /\ UNCHANGED <<doc, inbox, sent, progress, memory, finished, unrecorded, cut>>

WaitForUser ==
    /\ Looping("asking")
    /\ Gone /\ doc' = "waiting" /\ inbox' = 0
    /\ asker' = plan[step].id
    /\ UNCHANGED <<sent, recorded, ids, memory, finished, unrecorded, cut>>

\* Every call of the message has its result: they enter the memory, with the
\* structured output if there is one, and are sent to the model if not.
EndOfCalls ==
    /\ Looping("calls") /\ loop.call > Len(memory[Me].open)
    /\ Remember(AddResults(memory[Me]))
    /\ loop' = IF loop.output THEN [loop EXCEPT !.at = "result"]
               ELSE [loop EXCEPT !.at = "ask", !.turns = Iterated]
    /\ UNCHANGED <<session, progress, history, cut>>

-----------------------------------------------------------------------------
(* What the states of the flow do with the end of a loop.                  *)

\* The plan is the flow's; its PlanEvent is still to be recorded.
PlanCreated ==
    /\ Looping("result") /\ loop.op = "plan" /\ status = "planning"
    /\ \E n \in 0..MaxSteps :
        /\ ids + n <= MaxIds
        /\ plan' = NewSteps(n) /\ ids' = ids + n
    /\ Yield([loop EXCEPT !.at = "announce"], asker)
    /\ UNCHANGED <<doc, inbox, sent, status, recorded, step, memory, finished,
                   unrecorded, cut>>

PlanAnnounced ==
    /\ Looping("announce")
    /\ recorded' = plan /\ unrecorded' = FALSE
    /\ status' = IF plan = <<>> THEN "completed" ELSE "executing"
    /\ Yield(NoLoop, asker)
    /\ UNCHANGED <<doc, inbox, sent, plan, step, ids, memory, finished, cut>>

\* A fault of StepEnded: the status of the step is left alone.
StepEndedOpen == plan[step]

\* execute_step marks the step completed after its loop, however it ended.
StepEnded == [plan[step] EXCEPT !.status = "completed"]

EndStep ==
    /\ Looping("result") \/ Looping("failed")
    /\ loop.op = "step"
    /\ plan' = [plan EXCEPT ![step] = StepEnded]
    /\ finished' = finished \cup {plan[step].id}
    /\ status' = "updating"
    /\ IF loop.at = "result" THEN Yield(NoLoop, 0)
       ELSE loop' = NoLoop /\ asker' = 0 /\ UNCHANGED runner
    /\ UNCHANGED <<doc, inbox, sent, recorded, step, ids, memory, unrecorded, cut>>

\* A fault of RecordedUpdate: the update yields no PlanEvent.
RecordedNot(new) == recorded

RecordedUpdate(new) == Updated(plan, new)

EndUpdate ==
    /\ loop.op = "update"
    /\ \/ /\ Looping("result")
          /\ \E n \in 0..MaxSteps :
              /\ ids + n <= MaxIds
              /\ plan' = Updated(plan, NewSteps(n)) /\ ids' = ids + n
              /\ recorded' = RecordedUpdate(NewSteps(n))
          /\ unrecorded' = FALSE
          /\ Yield(NoLoop, asker)
       \/ /\ Looping("failed")
          /\ unrecorded' = TRUE /\ loop' = NoLoop
          /\ UNCHANGED <<plan, ids, recorded, runner, asker>>
    /\ status' = "executing"
    /\ UNCHANGED <<doc, inbox, sent, step, memory, finished, cut>>

EndSummary ==
    /\ Looping("result") \/ Looping("failed")
    /\ loop.op = "summary"
    /\ status' = "completed"
    /\ IF loop.at = "result" THEN Yield(NoLoop, asker)
       ELSE loop' = NoLoop /\ UNCHANGED <<runner, asker>>
    /\ UNCHANGED <<doc, inbox, sent, plan, recorded, step, ids, memory,
                   finished, unrecorded, cut>>

\* create_plan ended without a PlanEvent: `event.plan` raises.
PlanNotCreated ==
    /\ Looping("failed") /\ loop.op = "plan"
    /\ Gone /\ inbox' = 0 /\ doc' = "completed" /\ asker' = 0
    /\ UNCHANGED <<sent, recorded, ids, memory, finished, unrecorded, cut>>

LoopStep == Reply \/ HandleOutputCall \/ UnknownTool \/ InvokeTool \/ AskUser
            \/ WaitForUser \/ EndOfCalls
FlowStep == StartPlanning \/ StartStep \/ StartSummary \/ StartUpdate \/ Complete
            \/ PlanCreated \/ PlanAnnounced \/ PlanNotCreated \/ EndStep \/ EndUpdate
            \/ EndSummary
RunnerStep == BeginFlow \/ EndRunner
FlowNext == Message \/ Stop \/ Die \/ Raise \/ RunnerStep \/ FlowStep \/ LoopStep

FlowSpec == FlowInit /\ [][FlowNext]_flowVars

\* The event loop runs the execution of a session whenever it can run, every
\* request to the model and every tool returns or raises, and the commands to
\* Redis and MongoDB return.
FairFlowSpec == FlowSpec /\ WF_flowVars(RunnerStep \/ FlowStep \/ LoopStep)

-----------------------------------------------------------------------------
(* Properties.                                                             *)

\* A provider refuses a conversation in which a tool call has no result. The
\* roll-back at the start of a run repairs whatever the run before it left, for
\* both agents and wherever that run was abandoned, stopped or killed: a context
\* with an unanswered call is sent to the model only by an agent whose loop was
\* cut off by its iteration limit, or whose question to the user came first of
\* several calls (BaseAgent.roll_back, execute, ask_with_messages).
BrokenOnlyIfCut ==
    loop.at = "ask" /\ memory[Me].broken => Me \in cut

\* The answer to a question goes to the step that asked it: after the session
\* waited, the flow works on no other step, and neither plans nor sums up,
\* before that step has ended. The plan is read back from the events, so this
\* is only so if the last update of the plan was recorded (PlanActFlow.run,
\* Session.get_last_plan).
AnswerReachesAsker ==
    asker # 0 /\ runner = "flow" /\ loop.op # "none" =>
        loop.op = "step" /\ (unrecorded \/ plan[step].id = asker)

\* A step is not executed a second time after it ended, across questions to the
\* user and restarts of the process, unless a failed update of the plan kept
\* its end from being recorded (PlanActFlow.run, PlannerAgent.update_plan).
StepOnce ==
    loop.op = "step" => unrecorded \/ plan[step].id \notin finished

\* The flow sums up, and records its plan as completed, only when every step of
\* the plan recorded last has been executed to its end, in this run or in one
\* that waited for the user (PlanActFlow.run).
SummaryComesLast ==
    runner = "flow" /\ (loop.op = "summary" \/ status = "completed") =>
        \A i \in DOMAIN plan : plan[i].status = "completed" /\ plan[i].id \in finished

\* A call of the agent loop ends, whatever the model replies: by its result, its
\* limits, a question, or the end of the flow (BaseAgent.execute).
LoopEnds == (loop.at # "off") ~> (loop.at = "off")
=============================================================================
