------------------------ MODULE AgentSessionProofs ------------------------
(* Safety of AgentSession for every number of calls, events and restarts.   *)
EXTENDS AgentSession, TLAPS

\* Only a call with a message gets as far as creating or running a task.
SendersWrite ==
    \A c \in Clients :
        chats[c].pc \in {"create", "put", "record", "run", "build"} => c \in Senders

\* Whoever uses a task has one.
HasTask ==
    /\ \A e \in Senders : Live(e) => runs[e].task \in Senders
    /\ \A c \in Clients :
          chats[c].pc \in {"put", "record", "run", "build", "poll", "read"}
              => chats[c].task \in Senders

TypeInv == TypeOK /\ SendersWrite /\ HasTask

\* Places in chat() before task.run() has begun an execution.
BeforeRun == {"idle", "find", "lookup", "create", "put", "record", "run", "build"}

\* An execution is begun by one call, once.
NotYetRun == \A c \in Senders : chats[c].pc \in BeforeRun => runs[c].pc = "none"

\* A document that chat() will save back was not read as RUNNING.
StaleIsIdle ==
    \A c \in Clients : chats[c].pc = "create" => chats[c].snap.status # "running"

\* An execution and the task it executes point at each other.
ExecutionOfTask ==
    \A t \in Senders : tasks[t].execution # None =>
        /\ runs[tasks[t].execution].task = t
        /\ runs[tasks[t].execution].pc # "none"

\* Nobody knows a task before it is created.
NotYetCreated ==
    \A c \in Senders :
        chats[c].pc \in {"idle", "find", "lookup", "create"} =>
            /\ c \notin registry
            /\ tasks[c].execution = None
            /\ \A d \in Clients : chats[d].task # c

\* The inductive invariant.
Inv ==
    /\ TypeInv
    /\ NotYetRun
    /\ ExecutionOfTask
    /\ NotYetCreated
    /\ StaleIsIdle
    /\ RunningIsAttended
    /\ RegisteredIsUnfinished

---------------------------------------------------------------------------
(* Type correctness.                                                       *)

\* The types of the parts, as facts about single executions and calls.
LEMMA Types ==
    ASSUME TypeOK
    PROVE  /\ \A e \in Senders :
                 /\ runs[e].pc \in RunnerPC /\ runs[e].task \in MaybeSender
                 /\ runs[e].msg \in MaybeSender /\ runs[e].count \in 0..MaxEvents
                 /\ runs[e].beside \in BOOLEAN
           /\ \A t \in Senders :
                 /\ tasks[t].input \in Seq(Senders) /\ tasks[t].output \in Seq(EventKind)
                 /\ tasks[t].built \in BOOLEAN /\ tasks[t].execution \in MaybeSender
           /\ \A c \in Clients :
                 /\ chats[c].pc \in ChatPC /\ chats[c].snap \in Session
                 /\ chats[c].task \in MaybeSender /\ chats[c].pos \in Nat
                 /\ chats[c].done \in BOOLEAN /\ chats[c].last \in EventKind \cup {None}
BY DEF TypeOK, Run, Task, ChatCall


\* What moving an execution, or putting an event of it, leaves of runs and tasks.
LEMMA GotoRuns ==
    ASSUME TypeOK, NEW e \in Senders, NEW pc \in RunnerPC, Goto(e, pc)
    PROVE  /\ runs' \in [Senders -> Run]
           /\ \A f \in Senders :
                 /\ runs'[f].pc = IF f = e THEN pc ELSE runs[f].pc
                 /\ runs'[f].task = runs[f].task
                 /\ runs'[f].msg = runs[f].msg
                 /\ runs'[f].beside = runs[f].beside
<1>1. runs \in [Senders -> Run] /\ runs' = [runs EXCEPT ![e].pc = pc]
    BY DEF TypeOK, Goto
<1>2. [runs[e] EXCEPT !.pc = pc] \in Run
    BY <1>1 DEF Run
<1> QED
    BY <1>1, <1>2 DEF Run

LEMMA PutTasks ==
    ASSUME TypeOK, NEW e \in Senders, NEW kind \in EventKind, Put(e, kind)
    PROVE  /\ tasks' \in [Senders -> Task]
           /\ \A t \in Senders : tasks'[t].execution = tasks[t].execution
<1>1. /\ tasks \in [Senders -> Task]
      /\ tasks' = [tasks EXCEPT ![runs[e].task].output = Append(@, kind)]
    BY DEF TypeOK, Put
<1>2. CASE runs[e].task \notin Senders
    BY <1>1, <1>2
<1>3. CASE runs[e].task \in Senders
  <2>0. Append(tasks[runs[e].task].output, kind) \in Seq(EventKind)
      BY <1>3, Types
  <2>1. [tasks[runs[e].task] EXCEPT !.output = Append(@, kind)] \in Task
      BY <1>1, <1>3, <2>0 DEF Task
  <2>2. tasks' = [tasks EXCEPT ![runs[e].task] =
                                [tasks[runs[e].task] EXCEPT !.output = Append(@, kind)]]
      BY <1>1
  <2>3. tasks' \in [Senders -> Task]
      BY <1>1, <2>1, <2>2
  <2> QED
      BY <1>1, <1>3, <2>2, <2>3 DEF Task
<1> QED
    BY <1>2, <1>3

LEMMA RunnerTypes ==
    ASSUME TypeInv, NEW e \in Senders, Runner(e)
    PROVE  TypeOK'
<1> USE ConstantsAssumption DEF TypeInv
<1> SUFFICES doc' \in Session /\ registry' \subseteq Senders
             /\ tasks' \in [Senders -> Task] /\ runs' \in [Senders -> Run]
    BY DEF Runner, TypeOK
<1> DEFINE Goes == \E pc \in RunnerPC : Goto(e, pc)
           Puts == \E kind \in EventKind : Put(e, kind)
<1>1. Goes => runs' \in [Senders -> Run]
    BY GotoRuns
<1>2. Puts => tasks' \in [Senders -> Task]
    BY PutTasks
<1>0. runs[e] \in Run /\ 0 \in 0..MaxEvents
    BY ConstantsAssumption DEF TypeOK
<1>3. \A status \in SessionStatus : [doc EXCEPT !.status = status] \in Session
    BY DEF TypeOK, Session
<1>4. CASE RunnerStart(e) \/ RunnerLoop(e) \/ RunnerPopNothing(e) \/ RunnerMore(e)
           \/ RunnerEnded(e) \/ RunnerRaise(e)
  <2>1. Goes
      BY <1>4 DEF RunnerStart, RunnerLoop, RunnerPopNothing, RunnerMore, RunnerEnded,
                  RunnerRaise, Raise, RunnerPC
  <2> QED
      BY <1>1, <1>4, <2>1 DEF TypeOK, RunnerStart, RunnerLoop, RunnerPopNothing, RunnerMore,
                              RunnerEnded, RunnerRaise, Raise
<1>5. CASE RunnerRefuse(e) \/ RunnerEmitDone(e) \/ RunnerEmitWait(e) \/ RunnerHandle(e)
  <2>1. Goes /\ Puts
      BY <1>5 DEF RunnerRefuse, RunnerEmitDone, RunnerEmitWait, RunnerHandle, RunnerPC, EventKind
  <2> QED
      BY <1>1, <1>2, <1>5, <2>1 DEF TypeOK, RunnerRefuse, RunnerEmitDone, RunnerEmitWait,
                                    RunnerHandle
<1>6. CASE RunnerSetWaiting(e) \/ RunnerComplete(e)
  <2>1. Goes
      BY <1>6 DEF RunnerSetWaiting, RunnerComplete, RunnerPC
  <2>2. doc' \in Session
      BY <1>3, <1>6 DEF RunnerSetWaiting, RunnerComplete, Completed, SessionStatus
  <2> QED
      BY <1>1, <1>6, <2>1, <2>2 DEF TypeOK, RunnerSetWaiting, RunnerComplete
<1>7. CASE RunnerPop(e)
  <2>1. runs[e].task \in Senders
      BY <1>7 DEF RunnerPop, HasTask, Live
  <2>2. Input(e) \in Seq(Senders) /\ Input(e) # <<>>
      BY <1>7, <2>1, Types DEF RunnerPop, Input
  <2>3. Head(Input(e)) \in Senders /\ Tail(Input(e)) \in Seq(Senders)
      BY <2>2
  <2>4. [runs[e] EXCEPT !.pc = "begin", !.msg = Head(Input(e)), !.count = 0] \in Run
      BY <1>0, <2>3 DEF Run, RunnerPC, MaybeSender
  <2>5. tasks[runs[e].task] \in Task
      BY <2>1 DEF TypeOK
  <2>6. [tasks[runs[e].task] EXCEPT !.input = Tail(@)] \in Task
      BY <2>3, <2>5 DEF Task, Input
  <2> QED
      BY <1>7, <2>4, <2>6 DEF RunnerPop, TypeOK
<1>8. CASE RunnerBegin(e)
  <2>1. [runs[e] EXCEPT !.pc = "flow", !.msg = None] \in Run
      BY <1>0 DEF Run, RunnerPC, MaybeSender
  <2>2. doc' \in Session
      BY <1>3, <1>8 DEF RunnerBegin, SessionStatus, TypeOK
  <2> QED
      BY <1>8, <2>1, <2>2 DEF RunnerBegin, TypeOK
<1>9. CASE RunnerEmit(e)
  <2>1. Puts
      BY <1>9 DEF RunnerEmit, EventKind
  <2>2. [runs[e] EXCEPT !.pc = "more", !.count = @ + 1] \in Run
      BY <1>9 DEF RunnerEmit, TypeOK, Run, RunnerPC
  <2> QED
      BY <1>2, <1>9, <2>1, <2>2 DEF RunnerEmit, TypeOK
<1>10. CASE RunnerExit(e)
  <2>1. [runs[e] EXCEPT !.pc = "dead", !.msg = None, !.count = 0] \in Run
      BY <1>0 DEF Run, RunnerPC, MaybeSender
  <2> QED
      BY <1>10, <2>1 DEF RunnerExit, Unregistered, TypeOK
<1> QED
    BY <1>4, <1>5, <1>6, <1>7, <1>8, <1>9, <1>10 DEF Runner

\* What moving a call of chat() leaves of the calls.
LEMMA StepChats ==
    ASSUME TypeOK, NEW c \in Clients, NEW pc \in ChatPC, Step(c, pc)
    PROVE  /\ chats' \in [Clients -> ChatCall]
           /\ \A d \in Clients :
                 /\ chats'[d].pc = IF d = c THEN pc ELSE chats[d].pc
                 /\ chats'[d].task = chats[d].task
                 /\ chats'[d].snap = chats[d].snap
<1>1. chats \in [Clients -> ChatCall] /\ chats' = [chats EXCEPT ![c].pc = pc]
    BY DEF TypeOK, Step
<1>2. [chats[c] EXCEPT !.pc = pc] \in ChatCall
    BY <1>1 DEF ChatCall
<1> QED
    BY <1>1, <1>2 DEF ChatCall

LEMMA StartTypes ==
    ASSUME TypeOK, NEW c \in Senders, NEW t \in Senders, StartExecution(c, t)
    PROVE  /\ tasks' \in [Senders -> Task] /\ runs' \in [Senders -> Run]
           /\ \A u \in Senders :
                 /\ tasks'[u].execution = IF u = t THEN c ELSE tasks[u].execution
                 /\ tasks'[u].built = (u = t \/ tasks[u].built)
                 /\ tasks'[u].input = tasks[u].input /\ tasks'[u].output = tasks[u].output
           /\ \A f \in Senders :
                 /\ runs'[f].pc = IF f = c THEN "scheduled" ELSE runs[f].pc
                 /\ runs'[f].task = IF f = c THEN t ELSE runs[f].task
                 /\ runs'[f].beside = IF f = c THEN Executing(t) ELSE runs[f].beside
                 /\ f # c => runs'[f] = runs[f]
<1> DEFINE beside == Executing(t)
<1>0. tasks[t] \in Task /\ runs[c] \in Run
    BY DEF TypeOK
<1>5. beside \in BOOLEAN
    BY DEF Executing
<1>3. /\ tasks' = [tasks EXCEPT ![t] = [tasks[t] EXCEPT !.built = TRUE, !.execution = c]]
      /\ runs' = [runs EXCEPT
            ![c] = [runs[c] EXCEPT !.pc = "scheduled", !.task = t, !.beside = beside]]
    BY DEF StartExecution
<1>4. tasks \in [Senders -> Task] /\ runs \in [Senders -> Run]
    BY DEF TypeOK
<1> HIDE DEF beside
<1>1. [tasks[t] EXCEPT !.built = TRUE, !.execution = c] \in Task
    BY <1>0 DEF Task, MaybeSender
<1>2. [runs[c] EXCEPT !.pc = "scheduled", !.task = t, !.beside = beside] \in Run
    BY <1>0, <1>5 DEF Run, RunnerPC, MaybeSender
<1>6. \A f \in Senders : runs'[f].beside = IF f = c THEN beside ELSE runs[f].beside
    BY <1>3, <1>4 DEF Run
<1>7. /\ \A u \in Senders :
            /\ tasks'[u].execution = IF u = t THEN c ELSE tasks[u].execution
            /\ tasks'[u].input = tasks[u].input /\ tasks'[u].output = tasks[u].output
      /\ \A f \in Senders :
            /\ runs'[f].pc = IF f = c THEN "scheduled" ELSE runs[f].pc
            /\ runs'[f].task = IF f = c THEN t ELSE runs[f].task
            /\ f # c => runs'[f] = runs[f]
    BY <1>3, <1>4 DEF Task, Run
<1>8. \A u \in Senders : tasks'[u].built = (u = t \/ tasks[u].built)
  <2>1. \A u \in Senders : tasks[u].built \in BOOLEAN
      BY Types
  <2> QED
      BY <1>3, <1>4, <2>1 DEF Task
<1>9. tasks' \in [Senders -> Task] /\ runs' \in [Senders -> Run]
    BY <1>1, <1>2, <1>3, <1>4
<1> QED
    BY <1>6, <1>7, <1>8, <1>9 DEF beside

LEMMA ChatTypes ==
    ASSUME TypeInv, NEW c \in Clients, Chat(c)
    PROVE  TypeOK'
<1> USE ConstantsAssumption DEF TypeInv
<1> SUFFICES doc' \in Session /\ registry' \subseteq Senders
             /\ tasks' \in [Senders -> Task] /\ runs' \in [Senders -> Run]
             /\ chats' \in [Clients -> ChatCall]
    BY DEF Chat, TypeOK
<1> DEFINE Steps == \E pc \in ChatPC : Step(c, pc)
           Becomes(call) == chats' = [chats EXCEPT ![c] = call]
<1>0. chats[c] \in ChatCall /\ chats[c].snap \in Session /\ doc \in Session
    BY DEF TypeOK, ChatCall
<1>1. Steps => chats' \in [Clients -> ChatCall]
    BY StepChats
<1>2. \A call \in ChatCall : Becomes(call) => chats' \in [Clients -> ChatCall]
    BY DEF TypeOK
<1>3. NewSession \in Session /\ Forget(chats[c]) \in ChatCall
    BY <1>0 DEF NewSession, Forget, Session, ChatCall, SessionStatus, MaybeSender
<1>4. Failed(chats[c]) \in ChatCall
    BY <1>3 DEF Failed, ChatCall, ChatPC, EventKind
<1>5. CASE ChatFind(c)
  <2>1. [chats[c] EXCEPT !.pc = "lookup", !.snap = doc] \in ChatCall
      BY <1>0 DEF ChatCall, ChatPC
  <2> QED
      BY <1>2, <1>5, <2>1 DEF ChatFind, TypeOK
<1>6. CASE ChatLookup(c)
  <2> DEFINE t == chats[c].snap.task
  <2>1. ASSUME t \in registry, NEW p \in {0, Len(tasks[t].output)},
               NEW pc \in {"put", "poll"},
               Becomes([Forget(chats[c]) EXCEPT !.pc = pc, !.task = t, !.pos = p])
        PROVE  chats' \in [Clients -> ChatCall]
    <3>1. t \in Senders /\ p \in Nat
        BY <2>1, Types DEF TypeOK
    <3>2. [Forget(chats[c]) EXCEPT !.pc = pc, !.task = t, !.pos = p] \in ChatCall
        BY <1>3, <3>1 DEF ChatCall, ChatPC, MaybeSender
    <3> QED
        BY <1>2, <2>1, <3>2
  <2>2. [Forget(chats[c]) EXCEPT !.pc = "report"] \in ChatCall
      BY <1>3 DEF ChatCall, ChatPC
  <2>3. Step(c, "create") => chats' \in [Clients -> ChatCall]
      BY <1>1 DEF ChatPC
  <2>4. chats' \in [Clients -> ChatCall]
      BY <1>2, <1>4, <1>6, <2>1, <2>2, <2>3 DEF ChatLookup
  <2> QED
      BY <1>6, <2>4 DEF ChatLookup, TypeOK
<1>7. CASE ChatCreateSandbox(c)
  <2>1. [chats[c].snap EXCEPT !.sandbox = TRUE] \in Session
      BY <1>0 DEF Session
  <2>2. [chats[c] EXCEPT !.snap = [chats[c].snap EXCEPT !.sandbox = TRUE]] \in ChatCall
      BY <1>0, <2>1 DEF ChatCall
  <2>3. Becomes([chats[c] EXCEPT !.snap = [chats[c].snap EXCEPT !.sandbox = TRUE]])
      BY <1>7 DEF ChatCreateSandbox
  <2> QED
      BY <1>2, <1>7, <2>1, <2>2, <2>3 DEF ChatCreateSandbox, TypeOK
<1>8. CASE ChatCreateTask(c)
  <2>1. c \in Senders
      BY <1>8 DEF ChatCreateTask, SendersWrite
  <2>2. [chats[c].snap EXCEPT !.task = c] \in Session
      BY <1>0, <2>1 DEF Session, MaybeSender
  <2>3. [Forget(chats[c]) EXCEPT !.pc = "put", !.task = c] \in ChatCall
      BY <1>3, <2>1 DEF ChatCall, ChatPC, MaybeSender
  <2> QED
      BY <1>2, <1>8, <2>1, <2>2, <2>3 DEF ChatCreateTask, TypeOK
<1>9. CASE ChatPut(c)
  <2>1. c \in Senders /\ chats[c].task \in Senders
      BY <1>9 DEF ChatPut, SendersWrite, HasTask
  <2>2. Append(tasks[chats[c].task].input, c) \in Seq(Senders)
      BY <2>1, Types
  <2>3. tasks[chats[c].task] \in Task
      BY <2>1 DEF TypeOK
  <2>6. [tasks[chats[c].task] EXCEPT !.input = Append(@, c)] \in Task
      BY <2>2, <2>3 DEF Task
  <2>4. tasks' \in [Senders -> Task]
      BY <1>9, <2>1, <2>6 DEF ChatPut, TypeOK
  <2>5. Steps
      BY <1>9 DEF ChatPut, ChatPC
  <2> QED
      BY <1>1, <1>9, <2>4, <2>5 DEF ChatPut, TypeOK
<1>10. CASE ChatRecord(c)
  <2>1. c \in Senders
      BY <1>10 DEF ChatRecord, SendersWrite
  <2>2. doc' \in Session
      BY <1>0, <1>10, <2>1 DEF ChatRecord, Session
  <2>3. Steps
      BY <1>10 DEF ChatRecord, ChatPC
  <2> QED
      BY <1>1, <1>10, <2>2, <2>3 DEF ChatRecord, TypeOK
<1>11. CASE ChatRun(c) \/ ChatBuild(c)
  <2>1. c \in Senders /\ chats[c].task \in Senders
      BY <1>11 DEF ChatRun, ChatBuild, SendersWrite, HasTask
  <2>2. Steps
      BY <1>11 DEF ChatRun, ChatBuild, ChatPC
  <2>3. StartExecution(c, chats[c].task) \/ UNCHANGED <<tasks, runs>>
      BY <1>11 DEF ChatRun, ChatBuild
  <2>4. tasks' \in [Senders -> Task] /\ runs' \in [Senders -> Run]
      BY <2>1, <2>3, StartTypes DEF TypeOK
  <2> QED
      BY <1>1, <1>11, <2>2, <2>4 DEF ChatRun, ChatBuild, TypeOK
<1>12. CASE ChatRaise(c)
    BY <1>2, <1>4, <1>12 DEF ChatRaise, TypeOK
<1>13. CASE ChatPoll(c)
  <2>1. [chats[c] EXCEPT !.pc = "read", !.done = Done(chats[c].task)] \in ChatCall
      BY <1>0 DEF ChatCall, ChatPC, Done
  <2> QED
      BY <1>2, <1>13, <2>1 DEF ChatPoll, TypeOK
<1>14. CASE ChatRead(c)
  <2> DEFINE out == tasks[chats[c].task].output
             pos == chats[c].pos
  <2>1. out \in Seq(EventKind) /\ pos \in Nat
      BY <1>14, Types DEF ChatRead, HasTask
  <2>2. CASE pos < Len(out)
    <3> DEFINE event == out[pos + 1]
               next == IF event \in Terminal THEN "report" ELSE "poll"
               shown == IF event = "wait" THEN "waiting" ELSE chats[c].phase
    <3>0. ~(pos >= Len(out))
        BY <2>1, <2>2
    <3>1. event \in EventKind
        BY <2>1, <2>2
    <3>2. next \in ChatPC
        BY DEF ChatPC
    <3>3. shown \in SessionStatus \cup {"error"}
        BY <1>0 DEF ChatCall, SessionStatus
    <3>4. chats' = [chats EXCEPT ![c].pc = next, ![c].pos = pos + 1, ![c].done = FALSE,
                                 ![c].last = event, ![c].phase = shown]
        BY <1>14, <3>0, Zenon DEF ChatRead
    <3>7. Becomes([chats[c] EXCEPT !.pc = next, !.pos = pos + 1, !.done = FALSE,
                                   !.last = event, !.phase = shown])
        BY <1>0, <3>4 DEF ChatCall
    <3>5. pos + 1 \in Nat
        BY <2>1
    <3> HIDE DEF event, next, shown
    <3>6. [chats[c] EXCEPT !.pc = next, !.pos = pos + 1, !.done = FALSE,
                           !.last = event, !.phase = shown] \in ChatCall
        BY <1>0, <3>1, <3>2, <3>3, <3>5 DEF ChatCall
    <3> QED
        BY <1>2, <1>14, <3>6, <3>7 DEF ChatRead, TypeOK
  <2>3. CASE ~(pos < Len(out))
    <3>1. [chats[c] EXCEPT !.pc = IF chats[c].done THEN "report" ELSE "poll",
                           !.done = FALSE] \in ChatCall
        BY <1>0 DEF ChatCall, ChatPC
    <3>2. Becomes([chats[c] EXCEPT !.pc = IF chats[c].done THEN "report" ELSE "poll",
                                   !.done = FALSE])
        BY <1>14, <2>1, <2>3 DEF ChatRead
    <3> QED
        BY <1>2, <1>14, <3>1, <3>2 DEF ChatRead, TypeOK
  <2> QED
      BY <2>1, <2>2, <2>3
<1>15. CASE StreamEnd(c)
  <2>1. [chats[c] EXCEPT !.pc = "closed", !.pos = 0,
             !.phase = IF chats[c].last = "error" /\ doc.status # "waiting"
                       THEN "error" ELSE doc.status] \in ChatCall
      BY <1>0 DEF ChatCall, ChatPC, Session
  <2> QED
      BY <1>2, <1>15, <2>1 DEF StreamEnd, TypeOK
<1> QED
    BY <1>5, <1>6, <1>7, <1>8, <1>9, <1>10, <1>11, <1>12, <1>13, <1>14, <1>15 DEF Chat

\* Where a CancelledError takes an execution is a place in run().
LEMMA InterruptedPC ==
    \A pc \in RunnerPC : Interrupted(pc) \in RunnerPC \ {"none"}
BY DEF Interrupted, RunnerPC

LEMMA StopTypes ==
    ASSUME TypeInv, NEW s \in Stops, StopFind(s) \/ StopCancel(s) \/ StopComplete(s)
    PROVE  TypeOK'
<1> USE DEF TypeInv
<1>0. stops[s] \in StopCall /\ doc \in Session
    BY DEF TypeOK
<1>1. CASE StopFind(s)
  <2>1. [pc |-> "cancel", task |-> doc.task] \in StopCall
      BY <1>0 DEF Session, StopCall, StopPC
  <2> QED
      BY <1>1, <2>1 DEF StopFind, TypeOK
<1>2. CASE StopCancel(s)
  <2> DEFINE t == stops[s].task
             e == tasks[t].execution
  <2>1. [pc |-> "complete", task |-> None] \in StopCall
      BY DEF StopCall, StopPC, MaybeSender
  <2>2. registry' \subseteq Senders
      BY <1>2 DEF StopCancel, StopCancelThen, CancelTask, Unregistered, TypeOK
  <2>3. runs' \in [Senders -> Run] /\ stopped' \subseteq Senders
    <3>1. CASE t \in registry /\ ~Done(t)
      <4>1. e \in Senders
          BY <3>1, Types DEF Done, TypeOK, MaybeSender
      <4>2. Goto(e, Interrupted(runs[e].pc)) /\ stopped' = stopped \cup {e}
          BY <1>2, <3>1 DEF StopCancel, StopCancelThen, CancelTask
      <4>3. Interrupted(runs[e].pc) \in RunnerPC
          BY <4>1, Types, InterruptedPC
      <4> QED
          BY <4>1, <4>2, <4>3, GotoRuns DEF TypeOK
    <3>2. CASE ~(t \in registry /\ ~Done(t))
        BY <1>2, <3>2 DEF StopCancel, StopCancelThen, CancelTask, TypeOK
    <3> QED
        BY <3>1, <3>2
  <2> QED
      BY <1>2, <2>1, <2>2, <2>3 DEF StopCancel, StopCancelThen, TypeOK
<1>3. CASE StopComplete(s)
  <2>1. [stops[s] EXCEPT !.pc = "closed"] \in StopCall
      BY <1>0 DEF StopCall, StopPC
  <2>2. Completed(doc) \in Session
      BY <1>0 DEF Completed, Session, SessionStatus
  <2> QED
      BY <1>3, <2>1, <2>2 DEF StopComplete, TypeOK
<1> QED
    BY <1>1, <1>2, <1>3

LEMMA NewChatCall == NewChat \in ChatCall /\ [NewChat EXCEPT !.pc = "aborted"] \in ChatCall
BY DEF NewChat, NewSession, ChatCall, ChatPC, Session, SessionStatus, MaybeSender

LEMMA StreamTypes ==
    ASSUME TypeInv, NEW c \in Clients, OpenStream(c) \/ CancelStream(c)
    PROVE  TypeOK'
<1>0. chats[c] \in ChatCall
    BY DEF TypeInv, TypeOK
<1>1. [chats[c] EXCEPT !.pc = "find", !.phase = "running"] \in ChatCall
    BY <1>0 DEF ChatCall, ChatPC, SessionStatus
<1>2. CASE OpenStream(c)
    BY <1>1, <1>2 DEF OpenStream, TypeInv, TypeOK
<1>3. CASE CancelStream(c)
    BY <1>3, NewChatCall DEF CancelStream, TypeInv, TypeOK
<1> QED
    BY <1>2, <1>3

LEMMA RestartTypes == TypeInv /\ Restart => TypeOK'
<1> SUFFICES ASSUME TypeInv, Restart PROVE TypeOK'
    OBVIOUS
<1>0. restarts \in 0..MaxRestarts /\ restarts < MaxRestarts /\ restarts' = restarts + 1
    BY DEF TypeInv, TypeOK, Restart
<1>4. restarts' \in 0..MaxRestarts
    BY <1>0, ConstantsAssumption
<1> USE DEF TypeInv, TypeOK
<1>5. 0 \in 0..MaxEvents
    BY ConstantsAssumption
<1>1. \A e \in Senders : [runs[e] EXCEPT !.pc = "dead", !.msg = None, !.count = 0] \in Run
    BY <1>5, ZenonT(60) DEF Run, RunnerPC, MaybeSender
<1>2. \A t \in Senders : [tasks[t] EXCEPT !.built = FALSE, !.execution = None] \in Task
    BY DEF Task, MaybeSender
<1>3. [pc |-> "closed", task |-> None] \in StopCall
    BY DEF StopCall, StopPC, MaybeSender
<1> QED
    BY <1>1, <1>2, <1>3, <1>4, NewChatCall DEF Restart

---------------------------------------------------------------------------
(* What a step changes, field by field.                                    *)

\* A step of an execution is a step of a live one, of nothing else, and
\* drops its task exactly when it ends.
LEMMA RunnerFrame ==
    ASSUME TypeInv, NEW e \in Senders, Runner(e)
    PROVE  /\ Live(e) /\ runs'[e].pc # "none"
           /\ \A f \in Senders : f # e => runs'[f] = runs[f]
           /\ \A f \in Senders : runs'[f].task = runs[f].task
           /\ \A t \in Senders : tasks'[t].execution = tasks[t].execution
           /\ registry' = IF runs'[e].pc = "dead" THEN registry \ {runs[e].task}
                                                  ELSE registry
<1> USE DEF Live
<1> runs \in [Senders -> Run] /\ tasks \in [Senders -> Task]
    BY DEF TypeInv, TypeOK
<1>1. \A pc \in RunnerPC : Goto(e, pc) =>
          /\ runs'[e].pc = pc
          /\ \A f \in Senders : f # e => runs'[f] = runs[f]
          /\ \A f \in Senders : runs'[f].task = runs[f].task
    BY DEF Goto, Run
<1>2. \A kind \in EventKind : Put(e, kind) =>
          \A t \in Senders : tasks'[t].execution = tasks[t].execution
    BY PutTasks DEF TypeInv
<1>3. CASE RunnerStart(e) \/ RunnerLoop(e) \/ RunnerPopNothing(e) \/ RunnerMore(e)
           \/ RunnerEnded(e) \/ RunnerRaise(e)
  <2>1. /\ \E pc \in RunnerPC \ {"none", "dead"} : Goto(e, pc)
        /\ Live(e) /\ UNCHANGED <<registry, tasks>>
      BY <1>3 DEF RunnerStart, RunnerLoop, RunnerPopNothing, RunnerMore, RunnerEnded,
                  RunnerRaise, Raise, RunnerPC
  <2> QED
      BY <1>1, <2>1
<1>4. CASE RunnerRefuse(e) \/ RunnerEmitDone(e) \/ RunnerEmitWait(e) \/ RunnerHandle(e)
  <2>1. /\ \E pc \in RunnerPC \ {"none", "dead"} : Goto(e, pc)
        /\ \E kind \in EventKind : Put(e, kind)
        /\ Live(e) /\ UNCHANGED registry
      BY <1>4 DEF RunnerRefuse, RunnerEmitDone, RunnerEmitWait, RunnerHandle, RunnerPC, EventKind
  <2> QED
      BY <1>1, <1>2, <2>1
<1>5. CASE RunnerSetWaiting(e) \/ RunnerComplete(e)
  <2>1. /\ \E pc \in RunnerPC \ {"none", "dead"} : Goto(e, pc)
        /\ Live(e) /\ UNCHANGED <<registry, tasks>>
      BY <1>5 DEF RunnerSetWaiting, RunnerComplete, RunnerPC
  <2> QED
      BY <1>1, <2>1
<1>6. CASE RunnerPop(e)
    BY <1>6 DEF RunnerPop, Run, Task
<1>7. CASE RunnerBegin(e)
    BY <1>7 DEF RunnerBegin, Run
<1>8. CASE RunnerEmit(e)
  <2>1. \E kind \in EventKind : Put(e, kind)
      BY <1>8 DEF RunnerEmit, EventKind
  <2> QED
      BY <1>2, <1>8, <2>1 DEF RunnerEmit, Run
<1>9. CASE RunnerExit(e)
    BY <1>9 DEF RunnerExit, Unregistered, Run
<1> QED
    BY <1>3, <1>4, <1>5, <1>6, <1>7, <1>8, <1>9 DEF Runner

\* A step of a call of chat() moves that call forward, registers at most the
\* task named after it, begins at most the execution named after it, and
\* writes at most a status it has read.
Executions == [t \in Senders |-> tasks[t].execution]

LEMMA ChatFrame ==
    ASSUME TypeInv, NEW c \in Clients, Chat(c)
    PROVE  /\ \A d \in Clients : d # c => chats'[d] = chats[d]
           /\ chats[c].pc \notin {"idle", "closed", "aborted"}
           /\ chats'[c].pc \notin {"idle", "find"}
           /\ chats'[c].pc = "lookup" => chats[c].pc = "find"
           /\ chats'[c].pc \in BeforeRun => chats[c].pc \in BeforeRun
           /\ chats'[c].pc = "create" =>
                 /\ c \in Senders
                 /\ \/ chats[c].pc = "lookup" /\ NeedsTask(c)
                    \/ chats[c].pc = "create"
                 /\ chats'[c].snap.status = chats[c].snap.status
           /\ chats'[c].pc \in {"put", "record", "run", "build"} => c \in Senders
           /\ chats'[c].pc \in {"put", "record", "run", "build", "poll", "read"} =>
                 chats'[c].task \in Senders
           /\ chats'[c].task = chats[c].task \/ chats'[c].task \in registry'
           /\ \/ registry' = registry
              \/ /\ chats[c].pc = "create" /\ chats'[c].pc = "put"
                 /\ registry' = registry \cup {c}
           /\ \/ runs' = runs /\ Executions' = Executions
              \/ /\ chats[c].pc \in {"run", "build"} /\ chats'[c].pc = "poll"
                 /\ c \in Senders /\ chats[c].task \in Senders
                 /\ StartExecution(c, chats[c].task)
           /\ \/ doc'.status = doc.status
              \/ chats[c].pc = "create" /\ doc'.status = chats[c].snap.status
<1> USE DEF TypeInv, BeforeRun
<1>0. chats \in [Clients -> ChatCall] /\ chats[c] \in ChatCall
    BY DEF TypeOK
<1>1. CASE ChatFind(c)
    BY <1>0, <1>1 DEF ChatFind, Step, Forget, Failed, NewSession, NeedsTask, SendersWrite, HasTask, Executions, ChatCall, TypeOK
<1>2. CASE ChatLookup(c)
  <2> DEFINE t == chats[c].snap.task
             Moved(pc) == /\ \A d \in Clients : d # c => chats'[d] = chats[d]
                          /\ chats'[c].pc = pc
  <2>1. ASSUME NeedsTask(c), Step(c, "create")
        PROVE  Moved("create") /\ chats'[c].task = chats[c].task
                               /\ chats'[c].snap = chats[c].snap
      BY <1>0, <2>1 DEF Step, ChatCall
  <2>2. ASSUME NEW p, NEW pc,
               chats' = [chats EXCEPT ![c] = [Forget(chats[c]) EXCEPT
                                                 !.pc = pc, !.task = t, !.pos = p]]
        PROVE  Moved(pc) /\ chats'[c].task = t
      BY <1>0, <2>2 DEF Forget, ChatCall
  <2>3. ASSUME chats' = [chats EXCEPT ![c] = Failed(chats[c])]
        PROVE  Moved("report") /\ chats'[c].task = chats[c].task
      BY <1>0, <2>3 DEF Failed, Forget, ChatCall
  <2>4. ASSUME chats' = [chats EXCEPT ![c] = [Forget(chats[c]) EXCEPT !.pc = "report"]]
        PROVE  Moved("report") /\ chats'[c].task = chats[c].task
      BY <1>0, <2>4 DEF Forget, ChatCall
  <2>5. \/ /\ NeedsTask(c)
           /\ Moved("create") /\ chats'[c].task = chats[c].task
           /\ chats'[c].snap = chats[c].snap
        \/ Moved("report") /\ chats'[c].task = chats[c].task
        \/ /\ t \in registry /\ Moved(IF c \in Senders THEN "put" ELSE "poll")
           /\ chats'[c].task = t
    <3>1. \/ NeedsTask(c) /\ Step(c, "create")
          \/ /\ t \in registry
             /\ \E p \in {0, Len(tasks[t].output)} :
                  chats' = [chats EXCEPT ![c] = [Forget(chats[c]) EXCEPT
                      !.pc = IF c \in Senders THEN "put" ELSE "poll", !.task = t, !.pos = p]]
          \/ chats' = [chats EXCEPT ![c] = Failed(chats[c])]
          \/ chats' = [chats EXCEPT ![c] = [Forget(chats[c]) EXCEPT !.pc = "report"]]
        BY <1>2, Zenon DEF ChatLookup
    <3> QED
        BY <2>1, <2>2, <2>3, <2>4, <3>1
  <2>6. chats[c].pc = "lookup" /\ UNCHANGED <<doc, registry, tasks, runs>>
      BY <1>2 DEF ChatLookup
  <2>7. registry \subseteq Senders
      BY DEF TypeOK
  <2> QED
      BY <2>5, <2>6, <2>7 DEF NeedsTask, Executions
<1>3. CASE ChatCreateSandbox(c)
    BY <1>0, <1>3 DEF ChatCreateSandbox, Step, Forget, Failed, NewSession, NeedsTask, SendersWrite, HasTask, Executions, ChatCall, TypeOK
<1>4. CASE ChatCreateTask(c)
    BY <1>0, <1>4 DEF ChatCreateTask, Step, Forget, Failed, NewSession, NeedsTask, SendersWrite, HasTask, Executions, ChatCall, TypeOK
<1>5. CASE ChatPut(c)
    BY <1>0, <1>5 DEF ChatPut, Step, Forget, Failed, NewSession, NeedsTask, SendersWrite, HasTask, Executions, ChatCall, TypeOK
<1>6. CASE ChatRecord(c)
    BY <1>0, <1>6 DEF ChatRecord, Step, Forget, Failed, NewSession, NeedsTask, SendersWrite, HasTask, Executions, ChatCall, TypeOK
<1>7. CASE ChatRun(c)
    BY <1>0, <1>7 DEF ChatRun, Step, Forget, Failed, NewSession, NeedsTask, SendersWrite, HasTask, Executions, ChatCall, TypeOK
<1>8. CASE ChatBuild(c)
    BY <1>0, <1>8 DEF ChatBuild, Step, Forget, Failed, NewSession, NeedsTask, SendersWrite, HasTask, Executions, ChatCall, TypeOK
<1>9. CASE ChatRaise(c)
    BY <1>0, <1>9 DEF ChatRaise, Step, Forget, Failed, NewSession, NeedsTask, SendersWrite, HasTask, Executions, ChatCall, TypeOK
<1>10. CASE ChatPoll(c)
    BY <1>0, <1>10 DEF ChatPoll, Step, Forget, Failed, NewSession, NeedsTask, SendersWrite, HasTask, Executions, ChatCall, TypeOK
<1>11. CASE ChatRead(c)
  <2> DEFINE Moved(pc) == /\ \A d \in Clients : d # c => chats'[d] = chats[d]
                          /\ chats'[c].pc = pc /\ chats'[c].task = chats[c].task
  <2>1. ASSUME NEW pc, NEW pos, NEW event, NEW phase,
               chats' = [chats EXCEPT ![c].pc = pc, ![c].pos = pos, ![c].done = FALSE,
                                      ![c].last = event, ![c].phase = phase]
        PROVE  Moved(pc)
      BY <1>0, <2>1 DEF ChatCall
  <2>2. ASSUME NEW pc, chats' = [chats EXCEPT ![c].pc = pc, ![c].done = FALSE]
        PROVE  Moved(pc)
      BY <1>0, <2>2 DEF ChatCall
  <2>3. \E pc \in {"report", "poll"} : Moved(pc)
    <3> DEFINE event == tasks[chats[c].task].output[chats[c].pos + 1]
               next == IF event \in Terminal THEN "report" ELSE "poll"
               last == IF chats[c].done THEN "report" ELSE "poll"
               shown == IF event = "wait" THEN "waiting" ELSE chats[c].phase
    <3>1. \/ chats' = [chats EXCEPT
                 ![c].pc = next, ![c].pos = chats[c].pos + 1, ![c].done = FALSE,
                 ![c].last = event, ![c].phase = shown]
          \/ chats' = [chats EXCEPT ![c].pc = last, ![c].done = FALSE]
        BY <1>11, Zenon DEF ChatRead
    <3>2. next \in {"report", "poll"} /\ last \in {"report", "poll"}
        OBVIOUS
    <3> HIDE DEF event, next, last, shown
    <3>3. Moved(next) \/ Moved(last)
      <4>1. ASSUME chats' = [chats EXCEPT
                       ![c].pc = next, ![c].pos = chats[c].pos + 1, ![c].done = FALSE,
                       ![c].last = event, ![c].phase = shown]
            PROVE  Moved(next)
          BY <2>1, <4>1, Zenon
      <4> QED
          BY <2>2, <3>1, <4>1, Zenon
    <3> QED
        BY <3>2, <3>3, Zenon
  <2>4. chats[c].pc = "read" /\ UNCHANGED <<doc, registry, tasks, runs>>
      BY <1>11 DEF ChatRead
  <2> QED
      BY <2>3, <2>4 DEF HasTask, Executions
<1>12. CASE StreamEnd(c)
    BY <1>0, <1>12 DEF StreamEnd, Step, Forget, Failed, NewSession, NeedsTask, SendersWrite, HasTask, Executions, ChatCall, TypeOK
<1> QED
    BY <1>1, <1>2, <1>3, <1>4, <1>5, <1>6, <1>7, <1>8, <1>9, <1>10, <1>11, <1>12 DEF Chat

LEMMA StreamFrame ==
    ASSUME TypeInv, NEW c \in Clients, OpenStream(c) \/ CancelStream(c)
    PROVE  /\ \A d \in Clients : d # c => chats'[d] = chats[d]
           /\ \/ /\ chats[c].pc = "idle" /\ chats'[c].pc = "find"
                 /\ chats'[c].task = chats[c].task
              \/ chats'[c].pc = "aborted" /\ chats'[c].task = None
           /\ UNCHANGED <<doc, registry, tasks, runs, stops, restarts>>
<1>1. chats \in [Clients -> ChatCall]
    BY DEF TypeInv, TypeOK
<1>2. CASE OpenStream(c)
    BY <1>1, <1>2 DEF OpenStream, MayStart, ChatCall
<1>3. CASE CancelStream(c)
    BY <1>1, <1>3 DEF CancelStream, NewChat
<1> QED
    BY <1>2, <1>3

\* A cancellation leaves every task with its execution, and moves at most the
\* latest execution of a registered task, one that is not dead.
LEMMA StopFrame ==
    ASSUME TypeInv, NEW s \in Stops, StopCancel(s)
    PROVE  /\ stops'[s].pc = "complete"
           /\ registry' = registry \ {stops[s].task}
           /\ UNCHANGED <<doc, tasks, chats, restarts>>
           /\ \/ runs' = runs /\ stopped' = stopped
              \/ \E e \in Senders :
                    /\ stops[s].task \in Senders
                    /\ tasks[stops[s].task].execution = e
                    /\ runs[e].pc # "dead" /\ runs'[e].pc # "none"
                    /\ runs'[e].pc \in {"dead", "exit", "cancelling"}
                    /\ stopped' = stopped \cup {e}
                    /\ \A f \in Senders : f # e => runs'[f].pc = runs[f].pc
                    /\ \A f \in Senders :
                          /\ runs'[f].task = runs[f].task
                          /\ runs'[f].msg = runs[f].msg
                          /\ runs'[f].beside = runs[f].beside
<1> DEFINE t == stops[s].task
           e == tasks[t].execution
<1>1. stops'[s].pc = "complete"
    BY DEF StopCancel, StopCancelThen, TypeInv, TypeOK
<1>4. registry' = registry \ {t} /\ UNCHANGED <<doc, tasks, chats, restarts>>
    BY DEF StopCancel, StopCancelThen, CancelTask, Unregistered
<1>2. CASE t \in registry /\ ~Done(t)
  <2>1. e \in Senders /\ t \in Senders /\ runs[e].pc # "dead"
      BY <1>2, Types DEF Done, TypeInv, TypeOK, MaybeSender
  <2>2. Goto(e, Interrupted(runs[e].pc)) /\ stopped' = stopped \cup {e}
      BY <1>2 DEF StopCancel, StopCancelThen, CancelTask
  <2>3. Interrupted(runs[e].pc) \in {"dead", "exit", "cancelling"}
      BY DEF Interrupted
  <2>4. \A f \in Senders :
            /\ runs'[f].pc = IF f = e THEN Interrupted(runs[e].pc) ELSE runs[f].pc
            /\ runs'[f].task = runs[f].task
            /\ runs'[f].msg = runs[f].msg
            /\ runs'[f].beside = runs[f].beside
    <3>1. Interrupted(runs[e].pc) \in RunnerPC
        BY <2>3 DEF RunnerPC
    <3> QED
        BY <2>1, <2>2, <3>1, GotoRuns DEF TypeInv
  <2> QED
    <3>1. /\ runs'[e].pc # "none" /\ runs'[e].pc \in {"dead", "exit", "cancelling"}
          /\ \A f \in Senders : f # e => runs'[f].pc = runs[f].pc
        BY <2>1, <2>3, <2>4
    <3> QED
        BY <1>1, <1>4, <2>1, <2>2, <2>4, <3>1, Zenon
<1>3. CASE ~(t \in registry /\ ~Done(t))
    BY <1>1, <1>3, <1>4 DEF StopCancel, StopCancelThen, CancelTask
<1> QED
    BY <1>2, <1>3

LEMMA RestartFrame ==
    ASSUME TypeInv, Restart
    PROVE  /\ restarts' # 0 /\ registry' = {} /\ doc' = doc
           /\ \A t \in Senders : tasks'[t].execution = None
           /\ \A e \in Senders :
                 /\ runs'[e].pc = IF runs[e].pc = "none" THEN "none" ELSE "dead"
                 /\ runs'[e].task = runs[e].task /\ runs'[e].beside = runs[e].beside
           /\ stopped' = stopped
           /\ \A c \in Clients :
                 \/ chats'[c] = chats[c] /\ ~InProgress(c)
                 \/ chats'[c].pc = "aborted" /\ chats'[c].task = None
<1>0. restarts \in 0..MaxRestarts /\ restarts' = restarts + 1
    BY DEF Restart, TypeInv, TypeOK
<1>1. restarts' # 0
    BY <1>0, ConstantsAssumption
<1>2. \A t \in Senders : tasks'[t].execution = None
    BY DEF Restart, TypeInv, TypeOK, Task
<1>3. \A e \in Senders :
          /\ runs'[e].pc = IF runs[e].pc = "none" THEN "none" ELSE "dead"
          /\ runs'[e].task = runs[e].task /\ runs'[e].beside = runs[e].beside
    BY DEF Restart, TypeInv, TypeOK, Run
<1> QED
    BY <1>1, <1>2, <1>3 DEF Restart, NewChat, TypeInv, TypeOK

---------------------------------------------------------------------------
(* Every step preserves each part of the invariant.                        *)

LEMMA TypesPreserved ==
    ASSUME TypeInv, [Next]_vars PROVE TypeOK'
<1>1. CASE UNCHANGED vars
    BY <1>1 DEF vars, TypeInv, TypeOK
<1> QED
    BY <1>1, RunnerTypes, ChatTypes, StreamTypes, StopTypes, RestartTypes DEF Next

LEMMA SendersWritePreserved ==
    ASSUME TypeInv, [Next]_vars PROVE SendersWrite'
<1> USE DEF SendersWrite
<1>1. ASSUME NEW c \in Clients, Chat(c) PROVE SendersWrite'
    BY <1>1, ChatFrame DEF TypeInv
<1>2. ASSUME NEW c \in Clients, OpenStream(c) \/ CancelStream(c) PROVE SendersWrite'
    BY <1>2, StreamFrame DEF TypeInv
<1>3. CASE Restart
    BY <1>3, RestartFrame DEF TypeInv
<1>4. CASE UNCHANGED chats
    BY <1>4 DEF TypeInv
<1> QED
    BY <1>1, <1>2, <1>3, <1>4 DEF Next, Runner, StopFind, StopCancel, StopCancelThen,
                                  StopComplete, vars

LEMMA HasTaskPreserved ==
    ASSUME TypeInv, ExecutionOfTask, [Next]_vars PROVE HasTask'
<1> USE DEF HasTask, Live
<1>1. ASSUME NEW e \in Senders, Runner(e) PROVE HasTask'
  <2>1. chats' = chats
      BY <1>1 DEF Runner
  <2> QED
      BY <1>1, <2>1, RunnerFrame DEF TypeInv
<1>2. ASSUME NEW c \in Clients, Chat(c) PROVE HasTask'
  <2>1. \A e \in Senders : Live(e)' => runs'[e].task \in Senders
      BY <1>2, ChatFrame, StartTypes DEF TypeInv
  <2> QED
      BY <1>2, <2>1, ChatFrame DEF TypeInv
<1>3. ASSUME NEW c \in Clients, OpenStream(c) \/ CancelStream(c) PROVE HasTask'
    BY <1>3, StreamFrame DEF TypeInv
<1>4. ASSUME NEW s \in Stops, StopCancel(s) PROVE HasTask'
    BY <1>4, StopFrame, ConstantsAssumption DEF TypeInv, ExecutionOfTask
<1>5. CASE Restart
    BY <1>5, RestartFrame DEF TypeInv
<1>6. CASE UNCHANGED <<runs, chats>>
    BY <1>6 DEF TypeInv
<1> QED
    BY <1>1, <1>2, <1>3, <1>4, <1>5, <1>6 DEF Next, StopFind, StopComplete, vars

LEMMA NotYetRunPreserved ==
    ASSUME TypeInv, NotYetRun, ExecutionOfTask, [Next]_vars PROVE NotYetRun'
<1> USE DEF NotYetRun, BeforeRun
<1> Senders \subseteq Clients
    BY DEF Clients
<1>1. ASSUME NEW e \in Senders, Runner(e) PROVE NotYetRun'
  <2>1. chats' = chats
      BY <1>1 DEF Runner
  <2> QED
      BY <1>1, <2>1, RunnerFrame DEF Live
<1>2. ASSUME NEW c \in Clients, Chat(c) PROVE NotYetRun'
    BY <1>2, ChatFrame, StartTypes DEF TypeInv
<1>3. ASSUME NEW c \in Clients, OpenStream(c) \/ CancelStream(c) PROVE NotYetRun'
    BY <1>3, StreamFrame
<1>4. ASSUME NEW s \in Stops, StopCancel(s) PROVE NotYetRun'
    BY <1>4, StopFrame, ConstantsAssumption DEF ExecutionOfTask
<1>5. CASE Restart
    BY <1>5, RestartFrame
<1>6. CASE UNCHANGED <<runs, chats>>
    BY <1>6
<1> QED
    BY <1>1, <1>2, <1>3, <1>4, <1>5, <1>6 DEF Next, StopFind, StopComplete, vars

LEMMA ExecutionOfTaskPreserved ==
    ASSUME TypeInv, NotYetRun, ExecutionOfTask, [Next]_vars PROVE ExecutionOfTask'
<1> USE DEF ExecutionOfTask
<1>0. \A t \in Senders : tasks[t].execution \in Senders \cup {None}
    BY Types DEF TypeInv, MaybeSender
<1>1. ASSUME NEW e \in Senders, Runner(e) PROVE ExecutionOfTask'
    BY <1>0, <1>1, RunnerFrame
<1>2. ASSUME NEW c \in Clients, Chat(c) PROVE ExecutionOfTask'
  <2>1. CASE runs' = runs /\ Executions' = Executions
      BY <2>1 DEF Executions
  <2>2. CASE /\ chats[c].pc \in {"run", "build"} /\ c \in Senders
             /\ chats[c].task \in Senders /\ StartExecution(c, chats[c].task)
      BY <1>0, <2>2, StartTypes, ConstantsAssumption DEF TypeInv, NotYetRun, BeforeRun
  <2> QED
      BY <1>2, <2>1, <2>2, ChatFrame
<1>3. ASSUME NEW c \in Clients, OpenStream(c) \/ CancelStream(c) PROVE ExecutionOfTask'
    BY <1>3, StreamFrame
<1>4. ASSUME NEW s \in Stops, StopCancel(s) PROVE ExecutionOfTask'
    BY <1>0, <1>4, StopFrame
<1>5. CASE Restart
    BY <1>5, RestartFrame
<1>6. CASE UNCHANGED <<tasks, runs>>
    BY <1>6
<1> QED
    BY <1>1, <1>2, <1>3, <1>4, <1>5, <1>6 DEF Next, StopFind, StopComplete, vars

LEMMA NotYetCreatedPreserved ==
    ASSUME TypeInv, NotYetCreated, [Next]_vars PROVE NotYetCreated'
<1> USE DEF NotYetCreated
<1> Senders \subseteq Clients /\ registry \subseteq Senders
    BY DEF Clients, TypeInv, TypeOK
<1>1. ASSUME NEW e \in Senders, Runner(e) PROVE NotYetCreated'
  <2>1. chats' = chats
      BY <1>1 DEF Runner
  <2> QED
      BY <1>1, <2>1, RunnerFrame
<1>2. ASSUME NEW c \in Clients, Chat(c) PROVE NotYetCreated'
  <2> DEFINE Unborn == {"idle", "find", "lookup", "create"}
  <2> SUFFICES ASSUME NEW a \in Senders, chats'[a].pc \in Unborn
               PROVE  /\ a \notin registry' /\ tasks'[a].execution = None
                      /\ \A d \in Clients : chats'[d].task # a
      OBVIOUS
  <2>1. chats[a].pc \in Unborn
      BY <1>2, ChatFrame
  <2>2. a \notin registry'
      BY <1>2, <2>1, ChatFrame
  <2>3. tasks'[a].execution = None
      BY <1>2, <2>1, ChatFrame, StartTypes DEF Executions, TypeInv
  <2>4. \A d \in Clients : chats'[d].task # a
      BY <1>2, <2>1, <2>2, ChatFrame
  <2> QED
      BY <2>2, <2>3, <2>4
<1>3. ASSUME NEW c \in Clients, OpenStream(c) \/ CancelStream(c) PROVE NotYetCreated'
    BY <1>3, StreamFrame, ConstantsAssumption
<1>4. ASSUME NEW s \in Stops, StopCancel(s) PROVE NotYetCreated'
    BY <1>4, StopFrame
<1>5. CASE Restart
    BY <1>5, RestartFrame, ConstantsAssumption
<1>6. CASE UNCHANGED <<registry, tasks, chats>>
    BY <1>6
<1> QED
    BY <1>1, <1>2, <1>3, <1>4, <1>5, <1>6 DEF Next, StopFind, StopComplete, vars

LEMMA StaleIsIdlePreserved ==
    ASSUME TypeInv, StaleIsIdle, [Next]_vars PROVE StaleIsIdle'
<1> USE DEF StaleIsIdle
<1>1. ASSUME NEW c \in Clients, Chat(c) PROVE StaleIsIdle'
    BY <1>1, ChatFrame DEF NeedsTask
<1>2. ASSUME NEW c \in Clients, OpenStream(c) \/ CancelStream(c) PROVE StaleIsIdle'
    BY <1>2, StreamFrame
<1>3. CASE Restart
    BY <1>3, RestartFrame DEF InProgress
<1>4. CASE UNCHANGED chats
    BY <1>4
<1> QED
    BY <1>1, <1>2, <1>3, <1>4 DEF Next, Runner, StopFind, StopCancel, StopCancelThen,
                                  StopComplete, vars

LEMMA RegisteredPreserved ==
    ASSUME TypeInv, NotYetRun, ExecutionOfTask, NotYetCreated, RegisteredIsUnfinished,
           [Next]_vars
    PROVE  RegisteredIsUnfinished'
<1> USE DEF RegisteredIsUnfinished
<1> Senders \subseteq Clients /\ registry \subseteq Senders
    BY DEF Clients, TypeInv, TypeOK
<1>0. \A t \in Senders : tasks[t].execution \in Senders \cup {None}
    BY Types DEF TypeInv, MaybeSender
<1>1. ASSUME NEW e \in Senders, Runner(e) PROVE RegisteredIsUnfinished'
    BY <1>0, <1>1, RunnerFrame DEF ExecutionOfTask
<1>2. ASSUME NEW c \in Clients, Chat(c) PROVE RegisteredIsUnfinished'
  <2>1. registry' \subseteq Senders
      BY <1>2, ChatFrame, ChatTypes DEF TypeOK
  <2>2. CASE runs' = runs /\ Executions' = Executions
    <3>1. \A t \in Senders : tasks'[t].execution = tasks[t].execution
        BY <2>2 DEF Executions
    <3>2. chats[c].pc = "create" /\ registry' = registry \cup {c} =>
              c \in Senders /\ tasks[c].execution = None
        BY <2>1 DEF NotYetCreated
    <3> QED
        BY <1>2, <2>1, <2>2, <3>1, <3>2, ChatFrame
  <2>3. CASE /\ chats[c].pc \in {"run", "build"} /\ c \in Senders
             /\ chats[c].task \in Senders /\ StartExecution(c, chats[c].task)
    <3>1. registry' = registry
        BY <1>2, <2>3, ChatFrame
    <3> QED
        BY <1>0, <2>3, <3>1, StartTypes DEF TypeInv
  <2> QED
      BY <1>2, <2>2, <2>3, ChatFrame
<1>3. ASSUME NEW c \in Clients, OpenStream(c) \/ CancelStream(c)
      PROVE  RegisteredIsUnfinished'
    BY <1>3, StreamFrame
<1>4. ASSUME NEW s \in Stops, StopCancel(s) PROVE RegisteredIsUnfinished'
    BY <1>0, <1>4, StopFrame DEF ExecutionOfTask
<1>5. CASE Restart
    BY <1>5, RestartFrame
<1>6. CASE UNCHANGED <<registry, tasks, runs>>
    BY <1>6
<1> QED
    BY <1>1, <1>2, <1>3, <1>4, <1>5, <1>6 DEF Next, StopFind, StopComplete, vars

\* An execution that stops attending to the session has just written a status
\* that is not RUNNING, and one that writes RUNNING attends to it.
LEMMA RunnerAttends ==
    ASSUME TypeInv, NEW e \in Senders, Runner(e), doc'.status = "running"
    PROVE  \/ Attending(e)'
           \/ ~Attending(e) /\ doc.status = "running"
<1> USE DEF Attending
<1>0. /\ runs \in [Senders -> Run] /\ doc \in Session
      /\ \A pc \in RunnerPC : Goto(e, pc) => runs'[e].pc = pc
    BY DEF TypeInv, TypeOK, Goto, Run
<1>1. CASE RunnerStart(e) \/ RunnerRefuse(e)
    BY <1>0, <1>1 DEF RunnerStart, RunnerRefuse, RunnerPC
<1>2. CASE RunnerLoop(e) \/ RunnerPopNothing(e) \/ RunnerMore(e) \/ RunnerEnded(e)
           \/ RunnerRaise(e)
    BY <1>0, <1>2 DEF RunnerLoop, RunnerPopNothing, RunnerMore, RunnerEnded, RunnerRaise,
                      Raise, RunnerPC
<1>3. CASE RunnerEmitDone(e) \/ RunnerEmitWait(e) \/ RunnerHandle(e)
    BY <1>0, <1>3 DEF RunnerEmitDone, RunnerEmitWait, RunnerHandle, RunnerPC
<1>4. CASE RunnerSetWaiting(e) \/ RunnerComplete(e)
    BY <1>0, <1>4 DEF RunnerSetWaiting, RunnerComplete, Completed, Session
<1>5. CASE RunnerPop(e)
    BY <1>0, <1>5 DEF RunnerPop, Run
<1>6. CASE RunnerBegin(e)
    BY <1>0, <1>6 DEF RunnerBegin, Run
<1>7. CASE RunnerEmit(e)
    BY <1>0, <1>7 DEF RunnerEmit, Run
<1>8. CASE RunnerExit(e)
    BY <1>0, <1>8 DEF RunnerExit
<1> QED
    BY <1>1, <1>2, <1>3, <1>4, <1>5, <1>6, <1>7, <1>8 DEF Runner

LEMMA AttendedPreserved ==
    ASSUME TypeInv, NotYetRun, StaleIsIdle, RunningIsAttended, [Next]_vars
    PROVE  RunningIsAttended'
<1> USE DEF RunningIsAttended
<1> SUFFICES ASSUME doc'.status = "running", restarts' = 0
             PROVE  \/ \E e \in Senders : Attending(e)'
                    \/ \E s \in Stops : stops'[s].pc = "complete"
    OBVIOUS
<1> Senders \subseteq Clients
    BY DEF Clients
<1>1. ASSUME NEW e \in Senders, Runner(e)
      PROVE  \/ \E f \in Senders : Attending(f)'
             \/ \E s \in Stops : stops'[s].pc = "complete"
  <2>1. UNCHANGED <<stops, restarts>>
      BY <1>1 DEF Runner
  <2>2. \A f \in Senders : f # e => runs'[f] = runs[f]
      BY <1>1, RunnerFrame
  <2> QED
      BY <1>1, <2>1, <2>2, RunnerAttends DEF Attending
<1>2. ASSUME NEW c \in Clients, Chat(c)
      PROVE  \/ \E f \in Senders : Attending(f)'
             \/ \E s \in Stops : stops'[s].pc = "complete"
  <2>1. UNCHANGED <<stops, restarts>> /\ doc.status = "running"
      BY <1>2, ChatFrame DEF Chat, StaleIsIdle
  <2>2. \A f \in Senders : Attending(f) => runs'[f].pc = runs[f].pc
      BY <1>2, ChatFrame, StartTypes DEF Attending, NotYetRun, BeforeRun, TypeInv
  <2> QED
      BY <2>1, <2>2 DEF Attending
<1>3. ASSUME NEW c \in Clients, OpenStream(c) \/ CancelStream(c)
      PROVE  \/ \E f \in Senders : Attending(f)'
             \/ \E s \in Stops : stops'[s].pc = "complete"
    BY <1>3, StreamFrame DEF Attending
<1>4. ASSUME NEW s \in Stops, StopFind(s)
      PROVE  \/ \E f \in Senders : Attending(f)'
             \/ \E r \in Stops : stops'[r].pc = "complete"
    BY <1>4 DEF StopFind, Attending, TypeInv, TypeOK
<1>5. ASSUME NEW s \in Stops, StopCancel(s)
      PROVE  \E r \in Stops : stops'[r].pc = "complete"
    BY <1>5, StopFrame
<1>6. ASSUME NEW s \in Stops, StopComplete(s)
      PROVE  FALSE
    BY <1>6 DEF StopComplete, Completed, TypeInv, TypeOK, Session
<1>7. CASE Restart
    BY <1>7, RestartFrame
<1>8. CASE UNCHANGED vars
    BY <1>8 DEF vars, Attending
<1> QED
    BY <1>1, <1>2, <1>3, <1>4, <1>5, <1>6, <1>7, <1>8 DEF Next

LEMMA InitInv == Init => Inv
<1> SUFFICES ASSUME Init PROVE Inv
    OBVIOUS
<1> USE ConstantsAssumption DEF Init
<1>1. NewSession \in Session /\ NewTask \in Task /\ NewRun \in Run /\ NewChat \in ChatCall
  <2>1. 0 \in 0..MaxEvents
      OBVIOUS
  <2>2. NewSession \in Session
      BY DEF NewSession, Session, SessionStatus, MaybeSender
  <2>3. NewTask \in Task
      BY DEF NewTask, Task, MaybeSender
  <2>4. NewRun \in Run
      BY <2>1 DEF NewRun, Run, RunnerPC, MaybeSender
  <2> QED
      BY <2>2, <2>3, <2>4, NewChatCall
<1>2. [pc |-> "idle", task |-> None] \in StopCall /\ restarts \in 0..MaxRestarts
    BY DEF StopCall, StopPC, MaybeSender
<1>3. TypeOK
    BY <1>1, <1>2 DEF TypeOK
<1>4. SendersWrite /\ HasTask /\ NotYetRun /\ ExecutionOfTask /\ StaleIsIdle
    BY DEF SendersWrite, HasTask, Live, NotYetRun, ExecutionOfTask, StaleIsIdle,
           NewChat, NewRun, NewTask, Clients
<1>5. NotYetCreated /\ RunningIsAttended /\ RegisteredIsUnfinished
    BY DEF NotYetCreated, RunningIsAttended, RegisteredIsUnfinished, NewChat, NewTask,
           NewSession, Clients
<1> QED
    BY <1>3, <1>4, <1>5 DEF Inv, TypeInv

LEMMA InvPreserved == Inv /\ [Next]_vars => Inv'
BY TypesPreserved, SendersWritePreserved, HasTaskPreserved, NotYetRunPreserved,
   ExecutionOfTaskPreserved, NotYetCreatedPreserved, StaleIsIdlePreserved,
   RegisteredPreserved, AttendedPreserved
   DEF Inv, TypeInv

LEMMA Invariance == Spec => []Inv
<1>1. Init => Inv
    BY InitInv
<1>2. Inv /\ [Next]_vars => Inv'
    BY InvPreserved
<1> QED
    BY <1>1, <1>2, PTL DEF Spec

---------------------------------------------------------------------------
(* What a step does, in the detail that the other invariants need.          *)

\* An execution only puts events behind the ones that are there.
Ending(output) == \E i \in 1..Len(output) : output[i] \in Terminal

LEMMA AppendedTo ==
    ASSUME NEW S, NEW seq \in Seq(S), NEW x \in S
    PROVE  /\ Len(Append(seq, x)) = Len(seq) + 1 /\ Len(seq) \in Nat
           /\ \A i \in 1..Len(seq) : Append(seq, x)[i] = seq[i]
           /\ Append(seq, x)[Len(seq) + 1] = x
           /\ Append(seq, x) # <<>>
<1>1. /\ Len(Append(seq, x)) = Len(seq) + 1 /\ Len(seq) \in Nat
      /\ \A i \in 1..Len(seq) : Append(seq, x)[i] = seq[i]
      /\ Append(seq, x)[Len(seq) + 1] = x
    OBVIOUS
<1>2. Len(<<>>) = 0
    OBVIOUS
<1> QED
    BY <1>1, <1>2

LEMMA PutMore ==
    ASSUME TypeInv, NEW e \in Senders, runs[e].task \in Senders, NEW kind \in EventKind,
           Put(e, kind)
    PROVE  /\ \A t \in Senders :
                 /\ tasks'[t].input = tasks[t].input /\ tasks'[t].built = tasks[t].built
                 /\ Len(tasks[t].output) <= Len(tasks'[t].output)
                 /\ \A i \in 1..Len(tasks[t].output) : tasks'[t].output[i] = tasks[t].output[i]
           /\ kind \in Terminal => Ending(tasks'[runs[e].task].output)
<1> DEFINE u == runs[e].task
<1>1. /\ tasks \in [Senders -> Task] /\ tasks[u].output \in Seq(EventKind)
      /\ tasks' = [tasks EXCEPT ![u].output = Append(@, kind)]
    BY Types DEF TypeInv, TypeOK, Put
<1>2. /\ tasks'[u].output = Append(tasks[u].output, kind)
      /\ \A t \in Senders : t # u => tasks'[t] = tasks[t]
      /\ \A t \in Senders : tasks'[t].input = tasks[t].input /\ tasks'[t].built = tasks[t].built
    BY <1>1 DEF Task
<1>3. /\ Len(Append(tasks[u].output, kind)) = Len(tasks[u].output) + 1
      /\ \A i \in 1..Len(tasks[u].output) :
            Append(tasks[u].output, kind)[i] = tasks[u].output[i]
      /\ Append(tasks[u].output, kind)[Len(tasks[u].output) + 1] = kind
      /\ Len(tasks[u].output) \in Nat
    BY <1>1, AppendedTo
<1>4. \A t \in Senders :
          /\ Len(tasks[t].output) <= Len(tasks'[t].output)
          /\ \A i \in 1..Len(tasks[t].output) : tasks'[t].output[i] = tasks[t].output[i]
  <2> TAKE t \in Senders
  <2>1. CASE t = u
    <3>1. tasks'[t].output = Append(tasks[t].output, kind)
        BY <1>2, <2>1
    <3>2. tasks[t].output \in Seq(EventKind)
        BY Types DEF TypeInv
    <3>3. /\ Len(Append(tasks[t].output, kind)) = Len(tasks[t].output) + 1
          /\ \A i \in 1..Len(tasks[t].output) :
                Append(tasks[t].output, kind)[i] = tasks[t].output[i]
          /\ Len(tasks[t].output) \in Nat
        BY <3>2, AppendedTo
    <3> QED
        BY <3>1, <3>3
  <2>2. CASE t # u
    <3>1. Len(tasks[t].output) \in Nat
        BY Types DEF TypeInv
    <3> QED
        BY <1>2, <2>2, <3>1
  <2> QED
      BY <2>1, <2>2
<1>5. kind \in Terminal => Ending(tasks'[u].output)
  <2> SUFFICES ASSUME kind \in Terminal
               PROVE  \E i \in 1..Len(tasks'[u].output) : tasks'[u].output[i] \in Terminal
      BY DEF Ending
  <2>1. Len(tasks[u].output) + 1 \in 1..Len(tasks'[u].output)
      BY <1>2, <1>3
  <2> QED
      BY <1>2, <1>3, <2>1
<1> QED
    BY <1>2, <1>4, <1>5

\* Where an execution may go without putting an event, by what is left to read,
GoesQuietly(from, to, read) ==
    \/ from = "scheduled" /\ to \in {"loop", "refuse"}
    \/ from = "loop" /\ to = (IF read THEN "finish" ELSE "pop")
    \/ from = "pop" /\ to = "failing"
    \/ from = "begin" /\ to \in {"flow", "failing"}
    \/ from = "flow" /\ to = "failing"
    \/ from = "more" /\ to = (IF read THEN "flow" ELSE "loop")
    \/ from = "ended" /\ to = "loop"
    \/ from = "setwaiting" /\ to = "written"
    \/ from = "finish" /\ to = "written"
    \/ from = "closing" /\ to = "exit"
    \/ from \in {"written", "exit"} /\ to = "dead"

\* with one, and with a message it pops.
RunnerMove(e) ==
    \/ tasks' = tasks /\ GoesQuietly(runs[e].pc, runs'[e].pc, Input(e) = <<>>)
    \/ \E kind \in EventKind :
          /\ Put(e, kind)
          /\ \/ runs[e].pc = "flow" /\ runs'[e].pc = "more"
             \/ /\ kind \in Terminal
                /\ \/ runs[e].pc = "refuse" /\ runs'[e].pc = "finish"
                   \/ runs[e].pc = "flow" /\ runs'[e].pc \in {"ended", "setwaiting"}
                   \/ runs[e].pc \in {"failing", "cancelling"} /\ runs'[e].pc = "closing"
    \/ /\ runs[e].pc = "pop" /\ runs'[e].pc = "begin" /\ Input(e) # <<>>
       /\ runs'[e].msg = Head(Input(e))
       /\ tasks' = [tasks EXCEPT ![runs[e].task].input = Tail(@)]

LEMMA RunnerMoves ==
    ASSUME TypeInv, NEW e \in Senders, Runner(e)
    PROVE  /\ RunnerMove(e)
           /\ runs'[e].beside = runs[e].beside
           /\ doc'.history = doc.history
           /\ ChatMode /\ doc.status # "running" => doc'.status # "running"
           /\ UNCHANGED <<stopped, chats, stops, restarts>>
<1>0. /\ runs \in [Senders -> Run] /\ doc \in Session
      /\ \A pc \in RunnerPC : Goto(e, pc) =>
            runs'[e].pc = pc /\ runs'[e].beside = runs[e].beside
      /\ UNCHANGED <<stopped, chats, stops, restarts>>
    BY DEF TypeInv, TypeOK, Goto, Run, Runner
<1>1. CASE RunnerStart(e) \/ RunnerLoop(e) \/ RunnerPopNothing(e) \/ RunnerMore(e)
           \/ RunnerEnded(e) \/ RunnerRaise(e)
  <2>1. \E pc \in RunnerPC : Goto(e, pc) /\ GoesQuietly(runs[e].pc, pc, Input(e) = <<>>)
      BY <1>1 DEF RunnerStart, RunnerLoop, RunnerPopNothing, RunnerMore, RunnerEnded,
                  RunnerRaise, Raise, RunnerPC, GoesQuietly
  <2>2. UNCHANGED <<doc, tasks>>
      BY <1>1 DEF RunnerStart, RunnerLoop, RunnerPopNothing, RunnerMore, RunnerEnded,
                  RunnerRaise, Raise
  <2> QED
      BY <1>0, <2>1, <2>2 DEF RunnerMove
<1>2. CASE RunnerRefuse(e) \/ RunnerEmitDone(e) \/ RunnerEmitWait(e) \/ RunnerHandle(e)
  <2>1. /\ UNCHANGED doc
        /\ \E kind \in EventKind \cap Terminal, pc \in RunnerPC :
              /\ Put(e, kind) /\ Goto(e, pc)
              /\ \/ runs[e].pc = "refuse" /\ pc = "finish"
                 \/ runs[e].pc = "flow" /\ pc \in {"ended", "setwaiting"}
                 \/ runs[e].pc \in {"failing", "cancelling"} /\ pc = "closing"
      BY <1>2 DEF RunnerRefuse, RunnerEmitDone, RunnerEmitWait, RunnerHandle, RunnerPC,
                  EventKind, Terminal
  <2> QED
      BY <1>0, <2>1 DEF RunnerMove
<1>3. CASE RunnerSetWaiting(e) \/ RunnerComplete(e)
    BY <1>0, <1>3 DEF RunnerSetWaiting, RunnerComplete, Completed, Session, RunnerPC,
                      RunnerMove, GoesQuietly
<1>4. CASE RunnerPop(e)
    BY <1>0, <1>4 DEF RunnerPop, RunnerMove, Run
<1>5. CASE RunnerBegin(e)
    BY <1>0, <1>5 DEF RunnerBegin, RunnerMove, GoesQuietly, Run, Session
<1>6. CASE RunnerEmit(e)
  <2>1. /\ UNCHANGED doc
        /\ \E kind \in EventKind : Put(e, kind)
        /\ runs[e].pc = "flow" /\ runs'[e].pc = "more" /\ runs'[e].beside = runs[e].beside
      BY <1>0, <1>6 DEF RunnerEmit, Run, EventKind
  <2> QED
      BY <1>0, <2>1 DEF RunnerMove
<1>7. CASE RunnerExit(e)
    BY <1>0, <1>7 DEF RunnerExit, RunnerMove, GoesQuietly, Run
<1> QED
    BY <1>1, <1>2, <1>3, <1>4, <1>5, <1>6, <1>7 DEF Runner

\* What each step of a call of chat() changes, of itself and of the task it is at:
Goes(c, from, to) == chats[c].pc = from /\ chats'[c].pc = to
Keeps(c) == /\ chats'[c].task = chats[c].task /\ chats'[c].pos = chats[c].pos
            /\ chats'[c].last = chats[c].last
KeepsRead(c) == /\ chats'[c].snap.history = chats[c].snap.history
                /\ chats'[c].snap.status = chats[c].snap.status
WritesBack(c) == /\ doc'.history = chats[c].snap.history
                 /\ doc'.status = chats[c].snap.status
FindMove(c) ==
    /\ Goes(c, "find", "lookup") /\ Keeps(c) /\ chats'[c].snap = doc
    /\ UNCHANGED <<doc, registry, tasks, runs>>
LookupMove(c) ==
    /\ \/ Goes(c, "lookup", "create") /\ NeedsTask(c) /\ Keeps(c) /\ KeepsRead(c)
       \/ /\ Goes(c, "lookup", IF c \in Senders THEN "put" ELSE "poll")
          /\ ~NeedsTask(c) /\ chats'[c].task = chats[c].snap.task
          /\ chats[c].snap.task \in registry
       \/ /\ Goes(c, "lookup", "report") /\ chats'[c].task = chats[c].task
          /\ ~NeedsTask(c)
          /\ c \in Senders => chats'[c].last = "error"
    /\ (chats'[c].pc # "create" => chats'[c].snap = NewSession)
    /\ UNCHANGED <<doc, registry, tasks, runs>>
CreateMove(c) ==
    /\ WritesBack(c)
    /\ \/ Goes(c, "create", "create") /\ Keeps(c) /\ KeepsRead(c) /\ registry' = registry
       \/ /\ Goes(c, "create", "put") /\ chats'[c].task = c /\ chats'[c].pos = chats[c].pos
          /\ registry' = registry \cup {c} /\ chats'[c].snap = NewSession
    /\ UNCHANGED <<tasks, runs>>
PutMove(c) ==
    /\ Goes(c, "put", "record") /\ Keeps(c) /\ chats'[c].snap = chats[c].snap
    /\ tasks' = [tasks EXCEPT ![chats[c].task].input = Append(@, c)]
    /\ UNCHANGED <<doc, registry, runs>>
RecordMove(c) ==
    /\ Goes(c, "record", "run") /\ Keeps(c) /\ chats'[c].snap = chats[c].snap
    /\ doc'.history = doc.history \cup {c} /\ doc'.status = doc.status
    /\ UNCHANGED <<registry, tasks, runs>>
RunMove(c) ==
    /\ \/ /\ Goes(c, "run", "poll") /\ ~Done(chats[c].task) /\ UNCHANGED <<tasks, runs>>
       \/ /\ Goes(c, "run", "build") /\ Done(chats[c].task) /\ ~tasks[chats[c].task].built
          /\ UNCHANGED <<tasks, runs>>
       \/ /\ Goes(c, "run", "poll") /\ Done(chats[c].task) /\ StartExecution(c, chats[c].task)
       \/ Goes(c, "build", "poll") /\ StartExecution(c, chats[c].task)
    /\ Keeps(c) /\ chats'[c].snap = chats[c].snap
    /\ UNCHANGED <<doc, registry>>
RaiseMove(c) ==
    /\ chats[c].pc \in {"create", "build"} /\ chats'[c].pc = "report"
    /\ chats'[c].last = "error" /\ chats'[c].task = chats[c].task
    /\ chats'[c].snap = NewSession
    /\ UNCHANGED <<doc, registry, tasks, runs>>
PollMove(c) ==
    /\ Goes(c, "poll", "read") /\ Keeps(c) /\ chats'[c].snap = chats[c].snap
    /\ chats'[c].done => Done(chats[c].task)
    /\ UNCHANGED <<doc, registry, tasks, runs>>
ReadMove(c) ==
    LET output == tasks[chats[c].task].output
        pos == chats[c].pos
    IN
    /\ chats[c].pc = "read" /\ chats'[c].task = chats[c].task
    /\ chats'[c].snap = chats[c].snap
    /\ \/ /\ pos < Len(output) /\ chats'[c].pos = pos + 1 /\ chats'[c].last = output[pos + 1]
          /\ \/ output[pos + 1] \in Terminal /\ chats'[c].pc = "report"
             \/ output[pos + 1] \notin Terminal /\ chats'[c].pc = "poll"
       \/ /\ pos >= Len(output) /\ chats'[c].pos = pos
          /\ \/ chats'[c].pc = "poll"
             \/ chats'[c].pc = "report" /\ chats[c].done
    /\ UNCHANGED <<doc, registry, tasks, runs>>
EndMove(c) ==
    /\ Goes(c, "report", "closed") /\ chats'[c].task = chats[c].task
    /\ chats'[c].last = chats[c].last /\ chats'[c].snap = chats[c].snap
    /\ UNCHANGED <<doc, registry, tasks, runs>>

ChatMove(c) ==
    \/ FindMove(c) \/ LookupMove(c) \/ CreateMove(c) \/ PutMove(c) \/ RecordMove(c)
    \/ RunMove(c) \/ RaiseMove(c) \/ PollMove(c) \/ ReadMove(c) \/ EndMove(c)

LEMMA ChatMoves ==
    ASSUME TypeInv, NEW c \in Clients, Chat(c)
    PROVE  /\ ChatMove(c)
           /\ \A d \in Clients : d # c => chats'[d] = chats[d]
           /\ UNCHANGED <<stopped, stops, restarts>>
<1> USE DEF TypeInv
<1>0. /\ chats \in [Clients -> ChatCall] /\ chats[c] \in ChatCall
      /\ UNCHANGED <<stopped, stops, restarts>>
      /\ \A d \in Clients : d # c => chats'[d] = chats[d]
    BY ChatFrame DEF TypeOK, Chat
<1>13. /\ chats[c].snap \in Session /\ doc \in Session
       /\ \A pc \in ChatPC : Step(c, pc) =>
             /\ chats'[c].pc = pc /\ Keeps(c) /\ chats'[c].snap = chats[c].snap
    BY <1>0 DEF Step, Keeps, ChatCall, TypeOK
<1> SUFFICES ChatMove(c)
    BY <1>0
<1>1. CASE ChatFind(c)
  <2>1. FindMove(c)
      BY <1>0, <1>1 DEF ChatFind, FindMove, Goes, Keeps, ChatCall
  <2> QED
      BY <2>1 DEF ChatMove
<1>2. CASE ChatLookup(c)
  <2> DEFINE t == chats[c].snap.task
             to == IF c \in Senders THEN "put" ELSE "poll"
  <2>1. ASSUME NEW p,
               chats' = [chats EXCEPT ![c] = [Forget(chats[c]) EXCEPT
                                                 !.pc = to, !.task = t, !.pos = p]]
        PROVE  chats'[c].pc = to /\ chats'[c].task = t /\ chats'[c].snap = NewSession
      BY <1>0, <2>1 DEF Forget, ChatCall
  <2>2. ASSUME chats' = [chats EXCEPT ![c] = Failed(chats[c])]
        PROVE  /\ chats'[c].pc = "report" /\ chats'[c].task = chats[c].task
               /\ chats'[c].last = "error" /\ chats'[c].snap = NewSession
      BY <1>0, <2>2 DEF Failed, Forget, ChatCall
  <2>3. ASSUME chats' = [chats EXCEPT ![c] = [Forget(chats[c]) EXCEPT !.pc = "report"]]
        PROVE  /\ chats'[c].pc = "report" /\ chats'[c].task = chats[c].task
               /\ chats'[c].snap = NewSession
      BY <1>0, <2>3 DEF Forget, ChatCall
  <2>4. ASSUME Step(c, "create")
        PROVE  chats'[c].pc = "create" /\ Keeps(c) /\ KeepsRead(c)
      BY <1>13, <2>4 DEF ChatPC, KeepsRead
  <2>5. \/ NeedsTask(c) /\ Step(c, "create")
        \/ /\ ~NeedsTask(c) /\ t \in registry
           /\ \E p \in {0, Len(tasks[t].output)} :
                  chats' = [chats EXCEPT ![c] = [Forget(chats[c]) EXCEPT
                                                    !.pc = to, !.task = t, !.pos = p]]
        \/ ~NeedsTask(c) /\ c \in Senders /\ chats' = [chats EXCEPT ![c] = Failed(chats[c])]
        \/ /\ ~NeedsTask(c) /\ c \notin Senders
           /\ chats' = [chats EXCEPT ![c] = [Forget(chats[c]) EXCEPT !.pc = "report"]]
      BY <1>2, Zenon DEF ChatLookup
  <2>6. chats[c].pc = "lookup" /\ UNCHANGED <<doc, registry, tasks, runs>>
      BY <1>2 DEF ChatLookup
  <2>7. CASE NeedsTask(c) /\ Step(c, "create")
      BY <2>4, <2>6, <2>7 DEF ChatMove, LookupMove, Goes
  <2>8. CASE /\ ~NeedsTask(c) /\ t \in registry
             /\ \E p \in {0, Len(tasks[t].output)} :
                    chats' = [chats EXCEPT ![c] = [Forget(chats[c]) EXCEPT
                                                      !.pc = to, !.task = t, !.pos = p]]
    <3>1. chats'[c].pc = to /\ chats'[c].task = t /\ chats'[c].snap = NewSession
        BY <2>1, <2>8
    <3> QED
        BY <2>6, <2>8, <3>1 DEF ChatMove, LookupMove, Goes
  <2>9. CASE /\ ~NeedsTask(c) /\ c \in Senders
             /\ chats' = [chats EXCEPT ![c] = Failed(chats[c])]
      BY <2>2, <2>6, <2>9 DEF ChatMove, LookupMove, Goes
  <2>10. CASE /\ ~NeedsTask(c) /\ c \notin Senders
              /\ chats' = [chats EXCEPT ![c] = [Forget(chats[c]) EXCEPT !.pc = "report"]]
      BY <2>3, <2>6, <2>10 DEF ChatMove, LookupMove, Goes
  <2> QED
      BY <2>5, <2>7, <2>8, <2>9, <2>10
<1>3. CASE ChatCreateSandbox(c) \/ ChatCreateTask(c)
  <2>1. CreateMove(c)
    <3>1. CASE ChatCreateSandbox(c)
      <4> DEFINE session == [chats[c].snap EXCEPT !.sandbox = TRUE]
      <4>1. session.history = chats[c].snap.history /\ session.status = chats[c].snap.status
          BY <1>13 DEF Session
      <4>2. doc' = session /\ chats' = [chats EXCEPT ![c].snap = session]
          BY <1>0, <3>1 DEF ChatCreateSandbox, ChatCall
      <4> HIDE DEF session
      <4> QED
          BY <1>0, <3>1, <4>1, <4>2 DEF ChatCreateSandbox, CreateMove, WritesBack, Goes, Keeps,
                                        KeepsRead, ChatCall
    <3>2. CASE ChatCreateTask(c)
        BY <1>0, <1>13, <3>2 DEF ChatCreateTask, CreateMove, WritesBack, Goes, Forget,
                                 ChatCall, Session
    <3> QED
        BY <1>3, <3>1, <3>2
  <2> QED
      BY <2>1 DEF ChatMove
<1>4. CASE ChatPut(c)
  <2>1. PutMove(c)
      BY <1>4, <1>13 DEF ChatPut, PutMove, Goes, ChatPC
  <2> QED
      BY <2>1 DEF ChatMove
<1>5. CASE ChatRecord(c)
  <2>1. RecordMove(c)
      BY <1>5, <1>13 DEF ChatRecord, RecordMove, Goes, ChatPC, Session
  <2> QED
      BY <2>1 DEF ChatMove
<1>6. CASE ChatRun(c) \/ ChatBuild(c)
  <2>1. RunMove(c)
      BY <1>6, <1>13 DEF ChatRun, ChatBuild, RunMove, Goes, ChatPC
  <2> QED
      BY <2>1 DEF ChatMove
<1>7. CASE ChatRaise(c)
  <2>1. RaiseMove(c)
      BY <1>0, <1>7 DEF ChatRaise, RaiseMove, Failed, Forget, ChatCall
  <2> QED
      BY <2>1 DEF ChatMove
<1>8. CASE ChatPoll(c)
  <2> DEFINE done == Done(chats[c].task)
  <2>1. /\ chats' = [chats EXCEPT ![c].pc = "read", ![c].done = done]
        /\ chats[c].pc = "poll" /\ UNCHANGED <<doc, registry, tasks, runs>>
      BY <1>8 DEF ChatPoll
  <2> HIDE DEF done
  <2>2. /\ chats'[c].pc = "read" /\ chats'[c].done = done /\ Keeps(c)
        /\ chats'[c].snap = chats[c].snap
      BY <1>0, <2>1 DEF Keeps, ChatCall
  <2>3. PollMove(c)
      BY <2>1, <2>2 DEF PollMove, Goes, done
  <2> QED
      BY <2>3 DEF ChatMove
<1>9. CASE ChatRead(c)
  <2> DEFINE output == tasks[chats[c].task].output
             pos == chats[c].pos
             event == output[pos + 1]
             next == IF event \in Terminal THEN "report" ELSE "poll"
             last == IF chats[c].done THEN "report" ELSE "poll"
             shown == IF event = "wait" THEN "waiting" ELSE chats[c].phase
             Same == chats'[c].task = chats[c].task /\ chats'[c].snap = chats[c].snap
  <2>1. \/ /\ pos < Len(output)
           /\ chats' = [chats EXCEPT ![c].pc = next, ![c].pos = pos + 1, ![c].done = FALSE,
                                     ![c].last = event, ![c].phase = shown]
        \/ pos >= Len(output) /\ chats' = [chats EXCEPT ![c].pc = last, ![c].done = FALSE]
      BY <1>9, Zenon DEF ChatRead
  <2>2. /\ \/ next = "report" /\ event \in Terminal
           \/ next = "poll" /\ event \notin Terminal
        /\ \/ last = "poll"
           \/ last = "report" /\ chats[c].done
    <3>1. chats[c].done \in BOOLEAN
        BY Types
    <3> QED
        BY <3>1
  <2>3. chats[c].pc = "read" /\ UNCHANGED <<doc, registry, tasks, runs>>
      BY <1>9 DEF ChatRead
  <2> HIDE DEF event, next, last, shown
  <2>4. ASSUME chats' = [chats EXCEPT ![c].pc = next, ![c].pos = pos + 1, ![c].done = FALSE,
                                     ![c].last = event, ![c].phase = shown]
        PROVE  Same /\ chats'[c].pc = next /\ chats'[c].pos = pos + 1 /\ chats'[c].last = event
      BY <1>0, <2>4 DEF ChatCall
  <2>5. ASSUME chats' = [chats EXCEPT ![c].pc = last, ![c].done = FALSE]
        PROVE  Same /\ chats'[c].pc = last /\ chats'[c].pos = pos
      BY <1>0, <2>5 DEF ChatCall
  <2>6. /\ Same
        /\ \/ /\ pos < Len(output) /\ chats'[c].pos = pos + 1 /\ chats'[c].last = event
              /\ \/ event \in Terminal /\ chats'[c].pc = "report"
                 \/ event \notin Terminal /\ chats'[c].pc = "poll"
           \/ /\ pos >= Len(output) /\ chats'[c].pos = pos
              /\ \/ chats'[c].pc = "poll"
                 \/ chats'[c].pc = "report" /\ chats[c].done
    <3>1. CASE /\ pos < Len(output)
               /\ chats' = [chats EXCEPT ![c].pc = next, ![c].pos = pos + 1, ![c].done = FALSE,
                                         ![c].last = event, ![c].phase = shown]
        BY <2>2, <2>4, <3>1, Zenon
    <3>2. CASE pos >= Len(output) /\ chats' = [chats EXCEPT ![c].pc = last, ![c].done = FALSE]
        BY <2>2, <2>5, <3>2, Zenon
    <3> QED
        BY <2>1, <3>1, <3>2
  <2>7. ReadMove(c)
      BY <2>3, <2>6, Zenon DEF ReadMove, event
  <2> QED
      BY <2>7 DEF ChatMove
<1>10. CASE StreamEnd(c)
  <2>1. EndMove(c)
      BY <1>0, <1>10 DEF StreamEnd, EndMove, Goes, ChatCall
  <2> QED
      BY <2>1 DEF ChatMove
<1> QED
    BY <1>1, <1>2, <1>3, <1>4, <1>5, <1>6, <1>7, <1>8, <1>9, <1>10 DEF Chat

\* What a step leaves of the tasks: an execution only pops a message of its own
\* task, and only puts events behind the ones that are there;
LEMMA RunnerTasks ==
    ASSUME TypeInv, NEW e \in Senders, Runner(e)
    PROVE  /\ runs[e].task \in Senders
           /\ \A t \in Senders :
                 /\ tasks'[t].built = tasks[t].built
                 /\ tasks'[t].execution = tasks[t].execution
                 /\ Len(tasks[t].output) <= Len(tasks'[t].output)
                 /\ \A i \in 1..Len(tasks[t].output) :
                        tasks'[t].output[i] = tasks[t].output[i]
                 /\ \/ tasks'[t].input = tasks[t].input
                    \/ /\ t = runs[e].task /\ runs[e].pc = "pop" /\ runs'[e].pc = "begin"
                       /\ tasks[t].input # <<>> /\ tasks'[t].input = Tail(tasks[t].input)
                       /\ runs'[e].msg = Head(tasks[t].input)
           /\ runs'[e].pc = "begin" =>
                 /\ tasks[runs[e].task].input # <<>>
                 /\ runs'[e].msg = Head(tasks[runs[e].task].input)
<1>0. /\ runs[e].task \in Senders /\ tasks \in [Senders -> Task]
      /\ \A t \in Senders : Len(tasks[t].output) \in Nat
      /\ \A t \in Senders : tasks'[t].execution = tasks[t].execution
    BY RunnerFrame, Types DEF TypeInv, TypeOK, HasTask
<1>1. RunnerMove(e)
    BY RunnerMoves
<1>2. CASE tasks' = tasks /\ GoesQuietly(runs[e].pc, runs'[e].pc, Input(e) = <<>>)
    BY <1>0, <1>2 DEF GoesQuietly
<1>3. CASE \E kind \in EventKind :
              Put(e, kind) /\ runs'[e].pc \in {"more", "finish", "ended", "setwaiting", "closing"}
    BY <1>0, <1>3, PutMore
<1>4. CASE /\ runs[e].pc = "pop" /\ runs'[e].pc = "begin" /\ Input(e) # <<>>
           /\ runs'[e].msg = Head(Input(e))
           /\ tasks' = [tasks EXCEPT ![runs[e].task].input = Tail(@)]
  <2> DEFINE u == runs[e].task
  <2>1. /\ tasks'[u].input = Tail(tasks[u].input)
        /\ \A t \in Senders : t # u => tasks'[t] = tasks[t]
        /\ \A t \in Senders : /\ tasks'[t].built = tasks[t].built
                              /\ tasks'[t].output = tasks[t].output
      BY <1>0, <1>4 DEF Task
  <2>2. /\ runs[e].pc = "pop" /\ runs'[e].pc = "begin" /\ tasks[u].input # <<>>
        /\ runs'[e].msg = Head(tasks[u].input)
      BY <1>4 DEF Input
  <2>3. \A t \in Senders :
           /\ Len(tasks[t].output) <= Len(tasks'[t].output)
           /\ \A i \in 1..Len(tasks[t].output) : tasks'[t].output[i] = tasks[t].output[i]
      BY <1>0, <2>1
  <2>4. \A t \in Senders :
           tasks'[t].input = tasks[t].input
              \/ (t = u /\ tasks[t].input # <<>> /\ tasks'[t].input = Tail(tasks[t].input))
      BY <2>1, <2>2
  <2>5. \A t \in Senders : tasks'[t].execution = tasks[t].execution
      BY <1>0
  <2> QED
      BY <1>0, <2>1, <2>2, <2>3, <2>4, <2>5, Zenon
<1> QED
    BY <1>1, <1>2, <1>3, <1>4, Zenon DEF RunnerMove

\* a call of chat() only puts its message behind the ones that are there,
LEMMA ChatTasks ==
    ASSUME TypeInv, NEW c \in Clients, Chat(c)
    PROVE  \A t \in Senders :
              /\ tasks'[t].output = tasks[t].output
              /\ \/ tasks'[t].input = tasks[t].input
                 \/ /\ Goes(c, "put", "record") /\ c \in Senders /\ t = chats[c].task
                    /\ chats'[c].task = t
                    /\ tasks'[t].input = Append(tasks[t].input, c)
                    /\ tasks'[t].input # <<>>
<1>0. ChatMove(c) /\ tasks \in [Senders -> Task]
    BY ChatMoves DEF TypeInv, TypeOK
<1>1. CASE PutMove(c)
  <2>1. c \in Senders /\ chats[c].task \in Senders
      BY <1>1 DEF PutMove, Goes, TypeInv, SendersWrite, HasTask
  <2>2. Append(tasks[chats[c].task].input, c) # <<>>
    <3>1. tasks[chats[c].task].input \in Seq(Senders)
        BY <2>1, Types DEF TypeInv
    <3> QED
        BY <2>1, <3>1, AppendedTo
  <2> QED
      BY <1>0, <1>1, <2>1, <2>2 DEF PutMove, Keeps, Task
<1>2. CASE RunMove(c)
  <2>1. c \in Senders /\ chats[c].task \in Senders
      BY <1>2 DEF RunMove, Goes, TypeInv, SendersWrite, HasTask
  <2> QED
      BY <1>2, <2>1, StartTypes DEF RunMove, TypeInv
<1>3. CASE tasks' = tasks
    BY <1>3
<1> QED
    BY <1>0, <1>1, <1>2, <1>3 DEF ChatMove, FindMove, LookupMove, CreateMove, RecordMove,
                                  RaiseMove, PollMove, ReadMove, EndMove

\* and begins an execution only where none is under way, or its runner was not
\* there to see one.
LEMMA ChatStarts ==
    ASSUME TypeInv, NEW c \in Clients, Chat(c)
    PROVE  \/ /\ runs' = runs
              /\ \A t \in Senders : /\ tasks'[t].built = tasks[t].built
                                    /\ tasks'[t].execution = tasks[t].execution
           \/ /\ c \in Senders /\ chats[c].task \in Senders
              /\ chats[c].pc \in {"run", "build"} /\ chats'[c].pc = "poll"
              /\ chats'[c].task = chats[c].task
              /\ chats[c].pc = "run" => Done(chats[c].task)
              /\ StartExecution(c, chats[c].task)
<1>0. ChatMove(c) /\ tasks \in [Senders -> Task]
    BY ChatMoves DEF TypeInv, TypeOK
<1>1. CASE PutMove(c)
    BY <1>0, <1>1 DEF PutMove, Task
<1>2. CASE RunMove(c)
  <2>1. c \in Senders /\ chats[c].task \in Senders
      BY <1>2 DEF RunMove, Goes, TypeInv, SendersWrite, HasTask
  <2> QED
      BY <1>2, <2>1 DEF RunMove, Goes, Keeps
<1>3. CASE tasks' = tasks /\ runs' = runs
    BY <1>3
<1> QED
    BY <1>0, <1>1, <1>2, <1>3 DEF ChatMove, FindMove, LookupMove, CreateMove, RecordMove,
                                  RaiseMove, PollMove, ReadMove, EndMove

---------------------------------------------------------------------------
(* One execution for each task, if all calls come from one connection.     *)

\* A connection has one stream at a time,
OneStream ==
    SingleConnection => \A c, d \in Clients : InProgress(c) /\ InProgress(d) => c = d

\* a task without a runner has no execution,
NewTasksNeverRan == \A t \in Senders : ~tasks[t].built => tasks[t].execution = None

\* it is still without one when the call that builds its runner is back,
BuildsNewTask ==
    SingleConnection =>
        \A c \in Clients : chats[c].pc = "build" => ~tasks[chats[c].task].built

\* and so only the latest execution of a task may be under way.
LiveIsLatest ==
    SingleConnection => \A e \in Senders : Live(e) => tasks[runs[e].task].execution = e

OneInv == OneStream /\ NewTasksNeverRan /\ BuildsNewTask /\ LiveIsLatest

LEMMA OneStreamPreserved == ASSUME TypeInv, OneStream, [Next]_vars PROVE OneStream'
<1> USE DEF InProgress
<1> SUFFICES ASSUME SingleConnection, NEW c \in Clients, NEW d \in Clients,
                    InProgress(c)', InProgress(d)'
             PROVE  c = d
    BY DEF OneStream
<1>0. \A a, b \in Clients : InProgress(a) /\ InProgress(b) => a = b
    BY DEF OneStream
<1>1. ASSUME NEW a \in Clients, Chat(a) PROVE c = d
    BY <1>0, <1>1, ChatFrame
<1>2. ASSUME NEW a \in Clients, OpenStream(a) PROVE c = d
  <2>1. \A b \in Clients : ~InProgress(b)
      BY <1>2 DEF OpenStream, MayStart
  <2>2. \A b \in Clients : b # a => chats'[b] = chats[b]
      BY <1>2, StreamFrame
  <2> QED
      BY <2>1, <2>2
<1>3. ASSUME NEW a \in Clients, CancelStream(a) PROVE c = d
    BY <1>0, <1>3, StreamFrame DEF CancelStream
<1>4. CASE Restart
    BY <1>4, RestartFrame
<1>5. CASE UNCHANGED chats
    BY <1>0, <1>5
<1> QED
    BY <1>1, <1>2, <1>3, <1>4, <1>5 DEF Next, Runner, StopFind, StopCancel, StopCancelThen,
                                        StopComplete, vars

LEMMA NewTasksPreserved ==
    ASSUME TypeInv, NewTasksNeverRan, [Next]_vars PROVE NewTasksNeverRan'
<1> USE DEF NewTasksNeverRan
<1>1. ASSUME NEW e \in Senders, Runner(e) PROVE NewTasksNeverRan'
    BY <1>1, RunnerTasks
<1>2. ASSUME NEW c \in Clients, Chat(c) PROVE NewTasksNeverRan'
  <2>1. CASE \A t \in Senders : /\ tasks'[t].built = tasks[t].built
                                /\ tasks'[t].execution = tasks[t].execution
      BY <2>1
  <2>2. ASSUME NEW u \in Senders, c \in Senders, StartExecution(c, u)
        PROVE  NewTasksNeverRan'
    <3>1. \A t \in Senders : /\ tasks'[t].built = (t = u \/ tasks[t].built)
                             /\ t # u => tasks'[t].execution = tasks[t].execution
        BY <2>2, StartTypes DEF TypeInv
    <3>2. \A t \in Senders : ~tasks'[t].built => ~tasks[t].built /\ t # u
        BY <3>1, Zenon
    <3> QED
        BY <3>1, <3>2
  <2> QED
      BY <1>2, <2>1, <2>2, ChatStarts
<1>3. CASE Restart
    BY <1>3, RestartFrame
<1>4. CASE UNCHANGED tasks
    BY <1>4
<1> QED
    BY <1>1, <1>2, <1>3, <1>4 DEF Next, OpenStream, CancelStream, StopFind, StopCancel,
                                  StopCancelThen, StopComplete, vars

LEMMA BuildsPreserved ==
    ASSUME TypeInv, OneStream, BuildsNewTask, [Next]_vars PROVE BuildsNewTask'
<1> SUFFICES ASSUME SingleConnection, NEW c \in Clients, chats'[c].pc = "build"
             PROVE  ~tasks'[chats'[c].task].built
    BY DEF BuildsNewTask
<1>1. ASSUME NEW e \in Senders, Runner(e) PROVE ~tasks'[chats'[c].task].built
  <2>1. chats' = chats
      BY <1>1, RunnerMoves
  <2> QED
      BY <1>1, <2>1, RunnerTasks DEF BuildsNewTask, TypeInv, HasTask
<1>2. ASSUME NEW d \in Clients, Chat(d) PROVE ~tasks'[chats'[c].task].built
  <2>1. CASE d = c
    <3>1. ChatMove(c)
        BY <1>2, <2>1, ChatMoves
    <3>2. Goes(c, "run", "build") /\ tasks' = tasks /\ ~tasks[chats[c].task].built /\ Keeps(c)
        BY <3>1, Zenon DEF ChatMove, FindMove, LookupMove, CreateMove, PutMove, RecordMove,
                    RunMove, RaiseMove, PollMove, ReadMove, EndMove, Goes
    <3> QED
        BY <3>2 DEF Keeps
  <2>2. CASE d # c
    <3>1. chats'[c] = chats[c]
        BY <1>2, <2>2, ChatFrame
    <3>2. InProgress(c) /\ InProgress(d)
        BY <1>2, <3>1, ChatFrame DEF InProgress
    <3> QED
        BY <2>2, <3>2 DEF OneStream
  <2> QED
      BY <2>1, <2>2
<1>3. ASSUME NEW d \in Clients, OpenStream(d) \/ CancelStream(d)
      PROVE  ~tasks'[chats'[c].task].built
    BY <1>3, StreamFrame DEF BuildsNewTask
<1>4. CASE Restart
    BY <1>4, RestartFrame DEF InProgress
<1>5. CASE UNCHANGED <<tasks, chats>>
    BY <1>5 DEF BuildsNewTask
<1> QED
    BY <1>1, <1>2, <1>3, <1>4, <1>5 DEF Next, StopFind, StopCancel, StopCancelThen,
                                        StopComplete, vars

LEMMA LiveIsLatestPreserved ==
    ASSUME TypeInv, NotYetRun, ExecutionOfTask, OneInv, [Next]_vars PROVE LiveIsLatest'
<1> USE DEF Live
<1> SUFFICES ASSUME SingleConnection, NEW e \in Senders, Live(e)'
             PROVE  tasks'[runs'[e].task].execution = e
    BY DEF LiveIsLatest
<1>0. /\ Live(e) => runs[e].task \in Senders /\ tasks[runs[e].task].execution = e
      /\ \A t \in Senders : tasks[t].execution \in Senders \cup {None}
    BY Types DEF OneInv, LiveIsLatest, TypeInv, HasTask, MaybeSender
<1>1. ASSUME NEW f \in Senders, Runner(f) PROVE tasks'[runs'[e].task].execution = e
    BY <1>0, <1>1, RunnerFrame
<1>2. ASSUME NEW c \in Clients, Chat(c) PROVE tasks'[runs'[e].task].execution = e
  <2>1. CASE runs' = runs /\ \A t \in Senders : tasks'[t].execution = tasks[t].execution
      BY <1>0, <2>1
  <2>2. CASE /\ c \in Senders /\ chats[c].task \in Senders
             /\ chats[c].pc \in {"run", "build"}
             /\ chats[c].pc = "run" => Done(chats[c].task)
             /\ StartExecution(c, chats[c].task)
    <3> DEFINE t == chats[c].task
    <3>1. Live(e) /\ runs[e].task = t => FALSE
      <4>1. CASE chats[c].pc = "run"
          BY <1>0, <2>2, <4>1, ConstantsAssumption DEF Done
      <4>2. CASE chats[c].pc = "build"
          BY <1>0, <2>2, <4>2, ConstantsAssumption DEF OneInv, BuildsNewTask, NewTasksNeverRan
      <4> QED
          BY <2>2, <4>1, <4>2
    <3>2. /\ \A u \in Senders : tasks'[u].execution = IF u = t THEN c ELSE tasks[u].execution
          /\ runs'[e].task = IF e = c THEN t ELSE runs[e].task
          /\ runs'[e].pc = IF e = c THEN "scheduled" ELSE runs[e].pc
        BY <2>2, StartTypes DEF TypeInv
    <3> QED
        BY <1>0, <2>2, <3>1, <3>2
  <2> QED
      BY <1>2, <2>1, <2>2, ChatStarts
<1>3. ASSUME NEW s \in Stops, StopCancel(s) PROVE tasks'[runs'[e].task].execution = e
    BY <1>0, <1>3, StopFrame, ConstantsAssumption DEF ExecutionOfTask
<1>4. CASE Restart
    BY <1>4, RestartFrame
<1>5. CASE UNCHANGED <<tasks, runs>>
    BY <1>0, <1>5
<1> QED
    BY <1>1, <1>2, <1>3, <1>4, <1>5 DEF Next, OpenStream, CancelStream, StopFind,
                                        StopComplete, vars

\* This is enough for OneExecutionPerTask.
LEMMA OneExecution == OneInv => OneExecutionPerTask
BY DEF OneInv, LiveIsLatest, OneExecutionPerTask

---------------------------------------------------------------------------
(* The message in the prompt, in chat mode over one connection.            *)

\* No message finds the session running, so that each gets a task of its own,
NeverRunning ==
    ChatMode =>
        /\ doc.status # "running"
        /\ \A c \in Clients : chats[c].pc = "lookup" => chats[c].snap.status # "running"
        /\ \A c \in Clients \ Senders : chats[c].pc = "idle"
OwnTask ==
    ChatMode =>
        \A c \in Senders :
            chats[c].pc \in {"put", "record", "run", "build", "poll", "read"} =>
                chats[c].task = c
OwnMessages ==
    ChatMode =>
        \A t \in Senders : \A i \in 1..Len(tasks[t].input) : tasks[t].input[i] = t
OwnExecution ==
    ChatMode =>
        \A e \in Senders :
            /\ Live(e) => runs[e].task = e
            /\ runs[e].pc = "begin" => runs[e].msg = e

\* what a call is about to save whole has every message added before,
SnapHasHistory ==
    SingleConnection =>
        \A c \in Clients :
            chats[c].pc \in {"lookup", "create"} => doc.history \subseteq chats[c].snap.history

\* and a message is added before its execution begins.
Recorded ==
    SingleConnection /\ ChatMode =>
        \A e \in Senders : Live(e) \/ chats[e].pc \in {"run", "build"} => e \in doc.history

PromptInv ==
    NeverRunning /\ OwnTask /\ OwnMessages /\ OwnExecution /\ SnapHasHistory /\ Recorded

LEMMA NeverRunningPreserved ==
    ASSUME TypeInv, StaleIsIdle, NeverRunning, [Next]_vars PROVE NeverRunning'
<1> USE DEF NeverRunning
<1>1. ASSUME NEW e \in Senders, Runner(e) PROVE NeverRunning'
    BY <1>1, RunnerMoves
<1>2. ASSUME NEW c \in Clients, Chat(c) PROVE NeverRunning'
  <2> SUFFICES ASSUME ChatMode PROVE NeverRunning'
      OBVIOUS
  <2>1. doc'.status # "running"
      BY <1>2, ChatFrame DEF StaleIsIdle
  <2>2. chats'[c].pc = "lookup" => chats'[c].snap.status # "running"
    <3>1. ChatMove(c)
        BY <1>2, ChatMoves
    <3>2. chats'[c].pc = "lookup" => chats'[c].snap = doc
        BY <3>1, Zenon DEF ChatMove, FindMove, LookupMove, CreateMove, PutMove, RecordMove,
                    RunMove, RaiseMove, PollMove, ReadMove, EndMove, Goes
    <3> QED
        BY <3>2
  <2>3. \A d \in Clients : d # c => chats'[d] = chats[d]
      BY <1>2, ChatFrame
  <2>4. c \in Senders
      BY <1>2, ChatFrame
  <2> QED
      BY <2>1, <2>2, <2>3, <2>4
<1>3. ASSUME NEW c \in Clients, OpenStream(c) PROVE NeverRunning'
  <2>1. c \in Joiners => doc.status = "running"
      BY <1>3 DEF OpenStream
  <2>2. doc' = doc /\ \A d \in Clients : d # c => chats'[d] = chats[d]
      BY <1>3, StreamFrame
  <2>3. chats'[c].pc \notin {"idle", "lookup"}
      BY <1>3, StreamFrame
  <2>4. ChatMode => c \in Senders
      BY <2>1 DEF Clients
  <2> QED
      BY <2>2, <2>3, <2>4
<1>4. ASSUME NEW c \in Clients, CancelStream(c) PROVE NeverRunning'
    BY <1>4, StreamFrame DEF CancelStream, InProgress
<1>5. ASSUME NEW s \in Stops, StopComplete(s) PROVE NeverRunning'
    BY <1>5 DEF StopComplete, Completed, TypeInv, TypeOK, Session
<1>6. CASE Restart
    BY <1>6, RestartFrame DEF Restart, InProgress, TypeInv, TypeOK, NewChat
<1>7. CASE UNCHANGED <<doc, chats>>
    BY <1>7
<1> QED
    BY <1>1, <1>2, <1>3, <1>4, <1>5, <1>6, <1>7 DEF Next, StopFind, StopCancel,
                                                    StopCancelThen, vars

LEMMA OwnTaskPreserved ==
    ASSUME TypeInv, NeverRunning, OwnTask, [Next]_vars PROVE OwnTask'
<1> USE DEF OwnTask
<1> Senders \subseteq Clients
    BY DEF Clients
<1>2. ASSUME NEW c \in Clients, Chat(c) PROVE OwnTask'
  <2> SUFFICES ASSUME ChatMode, c \in Senders,
                      chats'[c].pc \in {"put", "record", "run", "build", "poll", "read"}
               PROVE  chats'[c].task = c
      BY <1>2, ChatFrame
  <2>1. ChatMove(c)
      BY <1>2, ChatMoves
  <2>2. \/ chats'[c].task = c
        \/ /\ chats[c].pc \in {"put", "record", "run", "build", "poll", "read"}
           /\ chats'[c].task = chats[c].task
        \/ chats[c].pc = "lookup" /\ ~NeedsTask(c)
      BY <2>1 DEF ChatMove, FindMove, LookupMove, CreateMove, PutMove, RecordMove,
                  RunMove, RaiseMove, PollMove, ReadMove, EndMove, Goes, Keeps
  <2> QED
      BY <2>2 DEF NeedsTask, NeverRunning
<1>3. ASSUME NEW c \in Clients, OpenStream(c) \/ CancelStream(c) PROVE OwnTask'
    BY <1>3, StreamFrame
<1>4. CASE Restart
    BY <1>4, RestartFrame DEF InProgress
<1>5. CASE UNCHANGED chats
    BY <1>5
<1> QED
    BY <1>2, <1>3, <1>4, <1>5 DEF Next, Runner, StopFind, StopCancel, StopCancelThen,
                                  StopComplete, vars

LEMMA OwnMessagesPreserved ==
    ASSUME TypeInv, OwnTask, OwnMessages, [Next]_vars PROVE OwnMessages'
<1> SUFFICES ASSUME ChatMode, NEW t \in Senders, NEW i \in 1..Len(tasks'[t].input)
             PROVE  tasks'[t].input[i] = t
    BY DEF OwnMessages
<1>0. /\ tasks[t].input \in Seq(Senders)
      /\ \A j \in 1..Len(tasks[t].input) : tasks[t].input[j] = t
    BY Types DEF OwnMessages, TypeInv
<1>1. ASSUME NEW e \in Senders, Runner(e) PROVE tasks'[t].input[i] = t
  <2>1. CASE tasks'[t].input = tasks[t].input
      BY <1>0, <2>1
  <2>2. CASE tasks[t].input # <<>> /\ tasks'[t].input = Tail(tasks[t].input)
    <3>1. i + 1 \in 1..Len(tasks[t].input) /\ tasks'[t].input[i] = tasks[t].input[i + 1]
        BY <1>0, <2>2
    <3>2. \A j \in 1..Len(tasks[t].input) : tasks[t].input[j] = t
        BY <1>0
    <3>3. tasks[t].input[i + 1] = t
        BY <3>1, <3>2
    <3> QED
        BY <3>1, <3>3
  <2> QED
      BY <1>1, <2>1, <2>2, RunnerTasks
<1>2. ASSUME NEW c \in Clients, Chat(c) PROVE tasks'[t].input[i] = t
  <2>1. CASE tasks'[t].input = tasks[t].input
      BY <1>0, <2>1
  <2>2. CASE c = t /\ tasks'[t].input = Append(tasks[t].input, t)
    <3>1. /\ Len(tasks'[t].input) = Len(tasks[t].input) + 1 /\ Len(tasks[t].input) \in Nat
          /\ \A j \in 1..Len(tasks[t].input) : tasks'[t].input[j] = tasks[t].input[j]
          /\ tasks'[t].input[Len(tasks[t].input) + 1] = t
        BY <1>0, <2>2, AppendedTo
    <3>2. i \in 1..Len(tasks[t].input) \/ i = Len(tasks[t].input) + 1
        BY <3>1
    <3>3. \A j \in 1..Len(tasks[t].input) : tasks'[t].input[j] = t
        BY <1>0, <3>1
    <3> QED
        BY <3>1, <3>2, <3>3
  <2> QED
      BY <1>2, <2>1, <2>2, ChatTasks DEF OwnTask, Goes
<1>3. CASE tasks'[t].input = tasks[t].input
    BY <1>0, <1>3
<1>4. CASE Restart
    BY <1>0, <1>3, <1>4 DEF Restart, TypeInv, TypeOK, Task
<1> QED
    BY <1>1, <1>2, <1>3, <1>4 DEF Next, OpenStream, CancelStream, StopFind, StopCancel,
                                  StopCancelThen, StopComplete, vars

LEMMA OwnExecutionPreserved ==
    ASSUME TypeInv, NotYetRun, ExecutionOfTask, OwnTask, OwnMessages, OwnExecution,
           [Next]_vars
    PROVE  OwnExecution'
<1> USE DEF Live
<1> SUFFICES ASSUME ChatMode, NEW e \in Senders
             PROVE  /\ Live(e)' => runs'[e].task = e
                    /\ runs'[e].pc = "begin" => runs'[e].msg = e
    BY DEF OwnExecution
<1>0. /\ Live(e) => runs[e].task = e
      /\ runs[e].pc = "begin" => runs[e].msg = e
    BY DEF OwnExecution
<1> DEFINE Own == /\ Live(e)' => runs'[e].task = e
                  /\ runs'[e].pc = "begin" => runs'[e].msg = e
<1>1. ASSUME NEW f \in Senders, Runner(f) PROVE Own
  <2>1. CASE f = e
    <3>1. /\ Live(e) /\ runs'[e].task = runs[e].task
          /\ runs'[e].pc = "begin" =>
                /\ tasks[runs[e].task].input # <<>>
                /\ runs'[e].msg = Head(tasks[runs[e].task].input)
        BY <1>1, <2>1, RunnerFrame, RunnerTasks
    <3>2. tasks[e].input \in Seq(Senders)
        BY Types DEF TypeInv
    <3>3. tasks[e].input # <<>> => Head(tasks[e].input) = e
      <4> SUFFICES ASSUME tasks[e].input # <<>> PROVE Head(tasks[e].input) = e
          OBVIOUS
      <4>1. 1 \in 1..Len(tasks[e].input) /\ Head(tasks[e].input) = tasks[e].input[1]
          BY <3>2
      <4> QED
          BY <4>1 DEF OwnMessages
    <3> QED
        BY <1>0, <3>1, <3>3
  <2>2. CASE f # e
      BY <1>0, <1>1, <2>2, RunnerFrame
  <2> QED
      BY <2>1, <2>2
<1>2. ASSUME NEW c \in Clients, Chat(c) PROVE Own
  <2>1. CASE runs' = runs
      BY <1>0, <2>1
  <2>2. CASE /\ c \in Senders /\ chats[c].task \in Senders
             /\ chats[c].pc \in {"run", "build"} /\ StartExecution(c, chats[c].task)
    <3>1. chats[c].task = c
        BY <2>2 DEF OwnTask
    <3> QED
        BY <1>0, <2>2, <3>1, StartTypes DEF TypeInv
  <2> QED
      BY <1>2, <2>1, <2>2, ChatStarts
<1>3. ASSUME NEW s \in Stops, StopCancel(s) PROVE Own
    BY <1>0, <1>3, StopFrame, ConstantsAssumption DEF ExecutionOfTask
<1>4. CASE Restart
    BY <1>4, RestartFrame
<1>5. CASE UNCHANGED runs
    BY <1>0, <1>5
<1> QED
    BY <1>1, <1>2, <1>3, <1>4, <1>5 DEF Next, OpenStream, CancelStream, StopFind,
                                        StopComplete, vars

\* With one connection, no save takes a message out of the history.
LEMMA HistoryGrows ==
    ASSUME TypeInv, SingleConnection, SnapHasHistory, [Next]_vars
    PROVE  doc.history \subseteq doc'.history
<1>1. ASSUME NEW e \in Senders, Runner(e) PROVE doc'.history = doc.history
    BY <1>1, RunnerMoves
<1>2. ASSUME NEW c \in Clients, Chat(c) PROVE doc.history \subseteq doc'.history
  <2>1. ChatMove(c)
      BY <1>2, ChatMoves
  <2>2. CASE CreateMove(c)
      BY <2>2 DEF CreateMove, WritesBack, Goes, SnapHasHistory
  <2>3. CASE RecordMove(c)
      BY <2>3 DEF RecordMove
  <2>4. CASE doc' = doc
      BY <2>4
  <2> QED
      BY <2>1, <2>2, <2>3, <2>4 DEF ChatMove, FindMove, LookupMove, PutMove, RunMove,
                                    RaiseMove, PollMove, ReadMove, EndMove
<1>3. ASSUME NEW s \in Stops, StopComplete(s) PROVE doc'.history = doc.history
    BY <1>3 DEF StopComplete, Completed, TypeInv, TypeOK, Session
<1> QED
    BY <1>1, <1>2, <1>3 DEF Next, OpenStream, CancelStream, StopFind, StopCancel,
                            StopCancelThen, Restart, vars

LEMMA SnapHasHistoryPreserved ==
    ASSUME TypeInv, OneStream, SnapHasHistory, [Next]_vars PROVE SnapHasHistory'
<1> USE DEF SnapHasHistory
<1>1. ASSUME NEW e \in Senders, Runner(e) PROVE SnapHasHistory'
    BY <1>1, RunnerMoves
<1>2. ASSUME NEW c \in Clients, Chat(c) PROVE SnapHasHistory'
  <2> SUFFICES ASSUME SingleConnection, NEW d \in Clients,
                      chats'[d].pc \in {"lookup", "create"}
               PROVE  doc'.history \subseteq chats'[d].snap.history
      OBVIOUS
  <2>1. CASE d = c
    <3>1. ChatMove(c)
        BY <1>2, ChatMoves
    <3>2. \/ FindMove(c) \/ CreateMove(c)
          \/ chats[c].pc = "lookup" /\ doc' = doc /\ KeepsRead(c)
        BY <2>1, <3>1 DEF ChatMove, LookupMove, PutMove, RecordMove, RunMove, RaiseMove,
                          PollMove, ReadMove, EndMove, Goes
    <3>3. CASE CreateMove(c)
        BY <2>1, <3>3 DEF CreateMove, WritesBack, KeepsRead, Goes
    <3> QED
        BY <2>1, <3>2, <3>3 DEF FindMove, KeepsRead
  <2>2. CASE d # c
      BY <1>2, <2>2, ChatFrame DEF OneStream, InProgress
  <2> QED
      BY <2>1, <2>2
<1>3. ASSUME NEW c \in Clients, OpenStream(c) \/ CancelStream(c) PROVE SnapHasHistory'
    BY <1>3, StreamFrame
<1>4. ASSUME NEW s \in Stops, StopComplete(s) PROVE SnapHasHistory'
    BY <1>4 DEF StopComplete, Completed, TypeInv, TypeOK, Session
<1>5. CASE Restart
    BY <1>5, RestartFrame DEF InProgress
<1>6. CASE UNCHANGED <<doc, chats>>
    BY <1>6
<1> QED
    BY <1>1, <1>2, <1>3, <1>4, <1>5, <1>6 DEF Next, StopFind, StopCancel, StopCancelThen, vars

LEMMA RecordedPreserved ==
    ASSUME TypeInv, NotYetRun, ExecutionOfTask, OwnTask, SnapHasHistory, Recorded,
           [Next]_vars
    PROVE  Recorded'
<1> USE DEF Live
<1> Senders \subseteq Clients
    BY DEF Clients
<1> SUFFICES ASSUME SingleConnection, ChatMode, NEW e \in Senders,
                    Live(e)' \/ chats'[e].pc \in {"run", "build"}
             PROVE  e \in doc'.history
    BY DEF Recorded
<1>0. /\ Live(e) \/ chats[e].pc \in {"run", "build"} => e \in doc.history
      /\ doc.history \subseteq doc'.history
    BY HistoryGrows DEF Recorded
<1>1. ASSUME NEW f \in Senders, Runner(f) PROVE e \in doc'.history
    BY <1>0, <1>1, RunnerFrame, RunnerMoves
<1>2. ASSUME NEW c \in Clients, Chat(c) PROVE e \in doc'.history
  <2>1. Live(e)' => Live(e) \/ chats[e].pc \in {"run", "build"}
      BY <1>2, ChatStarts, StartTypes DEF TypeInv
  <2>2. chats'[e].pc \in {"run", "build"} =>
            chats[e].pc \in {"run", "build"} \/ e \in doc'.history
    <3>1. CASE e = c
      <4>1. ChatMove(c)
          BY <1>2, ChatMoves
      <4> QED
          BY <3>1, <4>1 DEF ChatMove, FindMove, LookupMove, CreateMove, PutMove, RecordMove,
                            RunMove, RaiseMove, PollMove, ReadMove, EndMove, Goes
    <3>2. CASE e # c
        BY <1>2, <3>2, ChatFrame
    <3> QED
        BY <3>1, <3>2
  <2> QED
      BY <1>0, <2>1, <2>2
<1>3. ASSUME NEW c \in Clients, OpenStream(c) \/ CancelStream(c) PROVE e \in doc'.history
    BY <1>0, <1>3, StreamFrame
<1>4. ASSUME NEW s \in Stops, StopCancel(s) PROVE e \in doc'.history
    BY <1>0, <1>4, StopFrame, ConstantsAssumption DEF ExecutionOfTask
<1>5. CASE Restart
    BY <1>0, <1>5, RestartFrame DEF InProgress
<1>6. CASE UNCHANGED <<runs, chats>>
    BY <1>0, <1>6
<1> QED
    BY <1>1, <1>2, <1>3, <1>4, <1>5, <1>6 DEF Next, StopFind, StopComplete, vars

\* This is enough for PromptHasMessage.
LEMMA Prompted == PromptInv => PromptHasMessage
BY DEF PromptInv, PromptHasMessage, OwnExecution, Recorded, Live

---------------------------------------------------------------------------
(* The answer to a call that created its task.                             *)

\* What an answer is excused by, and what a call that waits for one may count on.
Disturbed(t) == \E e \in Senders : runs[e].task = t /\ (e \in stopped \/ runs[e].beside)
Settled(t) == Ending(tasks[t].output) \/ Disturbed(t)

Uses(c, t) == /\ chats[c].pc \in {"put", "record", "run", "build", "poll", "read"}
              /\ chats[c].task = t
InUse(t) == t \in registry \/ \E c \in Clients : Uses(c, t)
Fresh(t) == \A e \in Senders : runs[e].task # t

\* An execution that has not begun has no task, and a task that is not created no
\* execution; one that is in use and has no execution never had one.
NotBegun ==
    /\ \A e \in Senders : runs[e].pc = "none" => runs[e].task = None
    /\ \A c \in Senders : chats[c].pc \in {"idle", "find", "lookup", "create"} => Fresh(c)
    /\ \A t \in Senders : InUse(t) /\ tasks[t].execution = None => Fresh(t)

\* The first execution of a task finds a message,
PutFirst ==
    \A c \in Senders :
        chats[c].pc \in {"record", "run", "build"} /\ Fresh(chats[c].task) =>
            tasks[chats[c].task].input # <<>>

\* only one is under way if none began beside another,
AloneOnTask ==
    \A e, f \in Senders :
        Live(e) /\ Live(f) /\ runs[e].task = runs[f].task => e = f \/ Disturbed(runs[e].task)

\* and it ends the output before it ends, unless it has a message left to read.
EndsOutput(e) ==
    \/ Settled(runs[e].task)
    \/ /\ runs[e].pc \in {"scheduled", "loop", "pop"}
       /\ tasks[runs[e].task].input # <<>>
    \/ runs[e].pc \in {"refuse", "begin", "flow", "more", "failing"}
OutputEnds ==
    /\ \A e \in Senders : Live(e) => EndsOutput(e)
    /\ \A t \in Senders : tasks[t].execution # None /\ Done(t) => Settled(t)

\* A call polls a task that was executed, has seen no terminal event while it
\* reads, and leaves the loop at one or at the end.
Polls ==
    \A c \in Senders :
        chats[c].pc \in {"poll", "read"} => tasks[chats[c].task].execution # None
ReadsOn(c) ==
    /\ chats[c].pc \in {"put", "record", "run", "build", "poll", "read"} =>
          /\ chats[c].pos <= Len(tasks[c].output)
          /\ \A i \in 1..chats[c].pos : tasks[c].output[i] \notin Terminal
    /\ chats[c].pc = "read" /\ chats[c].done => Settled(c)
    /\ chats[c].pc \in {"report", "closed"} => chats[c].last \in Terminal \/ Disturbed(c)
Reads ==
    \A c \in Senders :
        /\ chats[c].pc \in {"idle", "find", "lookup", "create"} => chats[c].pos = 0
        /\ chats[c].task = c => ReadsOn(c)

AnswerInv ==
    NotBegun /\ PutFirst /\ AloneOnTask /\ OutputEnds /\ Polls /\ Reads

\* A task that was disturbed, or whose output has ended, stays so.
LEMMA StaysDisturbed ==
    ASSUME TypeInv, NotYetRun, NotBegun, [Next]_vars, NEW t \in Senders, Disturbed(t)
    PROVE  Disturbed(t)'
<1> USE DEF Disturbed
<1>0. PICK e \in Senders : runs[e].task = t /\ (e \in stopped \/ runs[e].beside)
    OBVIOUS
<1>1. ASSUME NEW f \in Senders, Runner(f) PROVE Disturbed(t)'
    BY <1>0, <1>1, RunnerFrame, RunnerMoves
<1>2. ASSUME NEW c \in Clients, Chat(c) PROVE Disturbed(t)'
  <2>1. stopped' = stopped
      BY <1>2, ChatMoves
  <2>2. CASE runs' = runs
      BY <1>0, <2>1, <2>2
  <2>3. CASE /\ c \in Senders /\ chats[c].task \in Senders
             /\ chats[c].pc \in {"run", "build"} /\ StartExecution(c, chats[c].task)
    <3>1. e # c
        BY <1>0, <2>3, ConstantsAssumption DEF NotYetRun, BeforeRun, NotBegun
    <3>2. runs'[e] = runs[e]
        BY <2>3, <3>1, StartTypes DEF TypeInv
    <3> QED
        BY <1>0, <2>1, <3>2
  <2> QED
      BY <1>2, <2>2, <2>3, ChatStarts
<1>3. ASSUME NEW s \in Stops, StopCancel(s) PROVE Disturbed(t)'
    BY <1>0, <1>3, StopFrame
<1>4. CASE Restart
    BY <1>0, <1>4, RestartFrame
<1>5. CASE UNCHANGED <<runs, stopped>>
    BY <1>0, <1>5
<1> QED
    BY <1>1, <1>2, <1>3, <1>4, <1>5 DEF Next, OpenStream, CancelStream, StopFind,
                                        StopComplete, vars

LEMMA OutputGrows ==
    ASSUME TypeInv, [Next]_vars, NEW t \in Senders
    PROVE  /\ Len(tasks[t].output) <= Len(tasks'[t].output)
           /\ \A i \in 1..Len(tasks[t].output) : tasks'[t].output[i] = tasks[t].output[i]
           /\ Len(tasks[t].output) \in Nat
<1> DEFINE Grows == /\ Len(tasks[t].output) <= Len(tasks'[t].output)
                    /\ \A i \in 1..Len(tasks[t].output) :
                          tasks'[t].output[i] = tasks[t].output[i]
<1>0. Len(tasks[t].output) \in Nat
    BY Types DEF TypeInv
<1>1. ASSUME NEW e \in Senders, Runner(e) PROVE Grows
    BY <1>1, RunnerTasks
<1>2. CASE tasks'[t].output = tasks[t].output
    BY <1>0, <1>2
<1>3. ASSUME NEW c \in Clients, Chat(c) PROVE Grows
    BY <1>2, <1>3, ChatTasks
<1>4. CASE Restart
    BY <1>2, <1>4 DEF Restart, TypeInv, TypeOK, Task
<1> QED
    BY <1>0, <1>1, <1>2, <1>3, <1>4 DEF Next, OpenStream, CancelStream, StopFind, StopCancel,
                                        StopCancelThen, StopComplete, vars

LEMMA StaysSettled ==
    ASSUME TypeInv, NotYetRun, NotBegun, [Next]_vars, NEW t \in Senders, Settled(t)
    PROVE  Settled(t)'
<1>1. CASE Disturbed(t)
    BY <1>1, StaysDisturbed DEF Settled
<1>2. CASE Ending(tasks[t].output)
  <2>1. PICK i \in 1..Len(tasks[t].output) : tasks[t].output[i] \in Terminal
      BY <1>2 DEF Ending
  <2>2. i \in 1..Len(tasks'[t].output) /\ tasks'[t].output[i] \in Terminal
      BY <2>1, OutputGrows
  <2> QED
      BY <2>2 DEF Ending, Settled
<1> QED
    BY <1>1, <1>2 DEF Settled

\* What is in use was in use, or is created by a call that says so.
LEMMA UseFrame ==
    ASSUME TypeInv, [Next]_vars, NEW t \in Senders, InUse(t)'
    PROVE  \/ InUse(t)
           \/ t \in Clients /\ chats[t].pc = "create"
<1> USE DEF InUse
<1>1. ASSUME NEW e \in Senders, Runner(e) PROVE InUse(t)
  <2>1. chats' = chats /\ registry' \subseteq registry
      BY <1>1, RunnerFrame, RunnerMoves
  <2> QED
      BY <2>1 DEF Uses
<1>2. ASSUME NEW c \in Clients, Chat(c)
      PROVE  \/ InUse(t)
             \/ t \in Clients /\ chats[t].pc = "create"
  <2>1. ChatMove(c) /\ \A d \in Clients : d # c => chats'[d] = chats[d]
      BY <1>2, ChatMoves
  <2>2. \/ registry' = registry
        \/ registry' = registry \cup {c} /\ chats[c].pc = "create"
      BY <1>2, ChatFrame
  <2>3. ASSUME Uses(c, t)'
        PROVE  \/ Uses(c, t)
               \/ t \in registry
               \/ c = t /\ chats[c].pc = "create"
    <3>1. CASE LookupMove(c)
        BY <2>3, <3>1 DEF Uses, LookupMove, Goes
    <3>2. CASE CreateMove(c)
        BY <2>3, <3>2 DEF Uses, CreateMove, Goes
    <3>3. CASE PutMove(c) \/ RecordMove(c) \/ RunMove(c) \/ PollMove(c)
        BY <2>3, <3>3 DEF Uses, PutMove, RecordMove, RunMove, PollMove, Goes, Keeps
    <3>4. CASE ReadMove(c)
        BY <2>3, <3>4 DEF Uses, ReadMove
    <3>5. CASE FindMove(c) \/ RaiseMove(c) \/ EndMove(c)
        BY <2>3, <3>5 DEF Uses, FindMove, RaiseMove, EndMove, Goes
    <3> QED
        BY <2>1, <3>1, <3>2, <3>3, <3>4, <3>5 DEF ChatMove
  <2> QED
      BY <2>1, <2>2, <2>3 DEF Uses
<1>3. ASSUME NEW c \in Clients, OpenStream(c) \/ CancelStream(c) PROVE InUse(t)
    BY <1>3, StreamFrame DEF Uses
<1>4. ASSUME NEW s \in Stops, StopCancel(s) PROVE InUse(t)
    BY <1>4, StopFrame DEF Uses
<1>5. CASE Restart
    BY <1>5, RestartFrame DEF Uses, InProgress
<1>6. CASE UNCHANGED <<registry, chats>>
    BY <1>6 DEF Uses
<1> QED
    BY <1>1, <1>2, <1>3, <1>4, <1>5, <1>6 DEF Next, StopFind, StopComplete, vars

\* What has a task, but for an execution that begins, had it.
LEMMA RunsFrame ==
    ASSUME TypeInv, ExecutionOfTask, [Next]_vars
    PROVE  \/ /\ \A e \in Senders : /\ runs'[e].task = runs[e].task
                                    /\ runs'[e].pc = "none" => runs[e].pc = "none"
                                    /\ runs[e].pc = "none" => runs'[e].pc = "none"
                                    /\ Live(e)' => Live(e)
              /\ \A t \in Senders : \/ tasks'[t].execution = tasks[t].execution
                                    \/ Restart /\ tasks'[t].execution = None
           \/ \E c \in Senders :
                 /\ Chat(c) /\ chats[c].task \in Senders
                 /\ chats[c].pc \in {"run", "build"} /\ chats'[c].pc = "poll"
                 /\ chats'[c].task = chats[c].task
                 /\ chats[c].pc = "run" => Done(chats[c].task)
                 /\ StartExecution(c, chats[c].task)
<1> USE DEF Live
<1> DEFINE Same == /\ \A e \in Senders : /\ runs'[e].task = runs[e].task
                                         /\ runs'[e].pc = "none" => runs[e].pc = "none"
                                         /\ runs[e].pc = "none" => runs'[e].pc = "none"
                                         /\ Live(e)' => Live(e)
                   /\ \A t \in Senders : \/ tasks'[t].execution = tasks[t].execution
                                         \/ Restart /\ tasks'[t].execution = None
<1>1. ASSUME NEW e \in Senders, Runner(e) PROVE Same
    BY <1>1, RunnerFrame
<1>2. ASSUME NEW c \in Clients, Chat(c),
             runs' = runs, \A t \in Senders : tasks'[t].execution = tasks[t].execution
      PROVE  Same
    BY <1>2
<1>3. ASSUME NEW s \in Stops, StopCancel(s) PROVE Same
    BY <1>3, StopFrame, ConstantsAssumption DEF ExecutionOfTask
<1>4. ASSUME Restart PROVE Same
    BY <1>4, RestartFrame
<1>5. ASSUME UNCHANGED <<tasks, runs>> PROVE Same
    BY <1>5
<1>6. ASSUME NEW c \in Clients, Chat(c)
      PROVE  \/ Same
             \/ /\ c \in Senders /\ chats[c].task \in Senders
                /\ chats[c].pc \in {"run", "build"} /\ chats'[c].pc = "poll"
                /\ chats'[c].task = chats[c].task
                /\ chats[c].pc = "run" => Done(chats[c].task)
                /\ StartExecution(c, chats[c].task)
  <2> HIDE DEF Same
  <2> QED
    BY <1>2, <1>6, ChatStarts
<1> HIDE DEF Same
<1>7. Same \/ \E c \in Clients : Chat(c)
    BY <1>1, <1>3, <1>4, <1>5 DEF Next, OpenStream, CancelStream, StopFind,
                                  StopComplete, vars
<1>8. ASSUME NEW c \in Clients, Chat(c), ~Same
      PROVE  \E d \in Senders :
                 /\ Chat(d) /\ chats[d].task \in Senders
                 /\ chats[d].pc \in {"run", "build"} /\ chats'[d].pc = "poll"
                 /\ chats'[d].task = chats[d].task
                 /\ chats[d].pc = "run" => Done(chats[d].task)
                 /\ StartExecution(d, chats[d].task)
    BY <1>6, <1>8
<1> QED
    BY <1>7, <1>8 DEF Same

Unborn == {"idle", "find", "lookup", "create"}

\* A call that has not created its task had not.
LEMMA UnbornFrame ==
    ASSUME TypeInv, [Next]_vars, NEW c \in Clients, chats'[c].pc \in Unborn
    PROVE  chats[c].pc \in Unborn
<1> USE DEF Unborn
<1>1. ASSUME NEW d \in Clients, Chat(d) PROVE chats[c].pc \in Unborn
    BY <1>1, ChatFrame
<1>2. ASSUME NEW d \in Clients, OpenStream(d) \/ CancelStream(d)
      PROVE  chats[c].pc \in Unborn
    BY <1>2, StreamFrame
<1>3. CASE Restart
    BY <1>3, RestartFrame
<1>4. CASE UNCHANGED chats
    BY <1>4
<1> QED
    BY <1>1, <1>2, <1>3, <1>4 DEF Next, Runner, StopFind, StopCancel, StopCancelThen,
                                  StopComplete, vars

\* An execution that begins is new, and has the task it is begun for.
LEMMA BeginFrame ==
    ASSUME TypeInv, NotYetRun, NotBegun, NEW c \in Senders, chats[c].task \in Senders,
           chats[c].pc \in {"run", "build"}, StartExecution(c, chats[c].task)
    PROVE  /\ runs[c].pc = "none" /\ runs[c].task = None
           /\ runs'[c].pc = "scheduled" /\ runs'[c].task = chats[c].task
           /\ runs'[c].beside = Executing(chats[c].task)
           /\ \A e \in Senders : e # c => runs'[e] = runs[e]
           /\ tasks'[chats[c].task].execution = c
           /\ \A t \in Senders :
                 t # chats[c].task => tasks'[t].execution = tasks[t].execution
           /\ \A t \in Senders : tasks'[t].input = tasks[t].input
<1>1. runs[c].pc = "none" /\ runs[c].task = None
    BY DEF NotYetRun, BeforeRun, NotBegun
<1> QED
    BY <1>1, StartTypes DEF TypeInv

LEMMA FreshBefore ==
    ASSUME TypeInv, NotYetRun, ExecutionOfTask, NotBegun, [Next]_vars, NEW t \in Senders,
           Fresh(t)'
    PROVE  Fresh(t)
<1> USE DEF Fresh
<1>1. CASE \A e \in Senders : runs'[e].task = runs[e].task
    BY <1>1
<1>2. ASSUME NEW c \in Senders, chats[c].task \in Senders,
             chats[c].pc \in {"run", "build"}, StartExecution(c, chats[c].task)
      PROVE  Fresh(t)
    BY <1>2, BeginFrame, ConstantsAssumption
<1> QED
    BY <1>1, <1>2, RunsFrame

LEMMA NotBegunPreserved ==
    ASSUME TypeInv, NotYetRun, ExecutionOfTask, NotYetCreated, NotBegun, [Next]_vars
    PROVE  NotBegun'
<1> Senders \subseteq Clients
    BY DEF Clients
<1>0. /\ \A e \in Senders : runs[e].pc = "none" => runs[e].task = None
      /\ \A c \in Senders : chats[c].pc \in Unborn => Fresh(c)
      /\ \A t \in Senders : InUse(t) /\ tasks[t].execution = None => Fresh(t)
    BY DEF NotBegun, Unborn
<1>1. \A e \in Senders : runs'[e].pc = "none" => runs'[e].task = None
  <2>1. ASSUME NEW c \in Senders, chats[c].task \in Senders,
               chats[c].pc \in {"run", "build"}, StartExecution(c, chats[c].task)
        PROVE  \A e \in Senders : runs'[e].pc = "none" => runs'[e].task = None
      BY <1>0, <2>1, BeginFrame
  <2> QED
      BY <1>0, <2>1, RunsFrame
<1>2. \A c \in Senders : chats'[c].pc \in Unborn => Fresh(c)'
  <2> SUFFICES ASSUME NEW c \in Senders, chats'[c].pc \in Unborn PROVE Fresh(c)'
      OBVIOUS
  <2>1. chats[c].pc \in Unborn /\ Fresh(c)
      BY <1>0, UnbornFrame
  <2>2. ASSUME NEW d \in Senders, chats[d].task \in Senders,
               chats[d].pc \in {"run", "build"}, StartExecution(d, chats[d].task)
        PROVE  Fresh(c)'
    <3>1. chats[d].task # c
        BY <2>1 DEF NotYetCreated, Unborn
    <3> QED
        BY <2>1, <2>2, <3>1, BeginFrame DEF Fresh
  <2> QED
      BY <2>1, <2>2, RunsFrame DEF Fresh
<1>3. \A t \in Senders : InUse(t)' /\ tasks'[t].execution = None => Fresh(t)'
  <2> SUFFICES ASSUME NEW t \in Senders, InUse(t)', tasks'[t].execution = None
               PROVE  Fresh(t)'
      OBVIOUS
  <2>1. ~Restart
      BY RestartFrame DEF InUse, Uses, InProgress
  <2>2. tasks[t].execution = None => Fresh(t)
      BY <1>0, UseFrame DEF Unborn
  <2>3. ASSUME NEW c \in Senders, chats[c].task \in Senders,
               chats[c].pc \in {"run", "build"}, StartExecution(c, chats[c].task)
        PROVE  Fresh(t)'
      BY <2>2, <2>3, BeginFrame, ConstantsAssumption DEF Fresh
  <2> QED
      BY <2>1, <2>2, <2>3, RunsFrame DEF Fresh
<1> QED
    BY <1>1, <1>2, <1>3 DEF NotBegun, Unborn

LEMMA PutFirstPreserved ==
    ASSUME TypeInv, NotYetRun, ExecutionOfTask, NotBegun, PutFirst, [Next]_vars
    PROVE  PutFirst'
<1> Senders \subseteq Clients
    BY DEF Clients
<1> DEFINE Sent == {"record", "run", "build"}
<1> SUFFICES ASSUME NEW c \in Senders, chats'[c].pc \in Sent,
                    NEW t \in Senders, chats'[c].task = t, Fresh(t)'
             PROVE  tasks'[t].input # <<>>
    BY HasTaskPreserved DEF PutFirst, Fresh, HasTask
<1> DEFINE Put1 == tasks'[t].input # <<>>
<1>0. ASSUME chats[c].pc \in Sent, chats[c].task = t
      PROVE  Fresh(t) /\ tasks[t].input # <<>>
    BY <1>0, FreshBefore DEF PutFirst
<1>1. ASSUME NEW e \in Senders, Runner(e) PROVE Put1
  <2>1. chats' = chats
      BY <1>1, RunnerMoves
  <2>2. runs[e].task # t /\ tasks[t].input # <<>>
      BY <1>0, <2>1 DEF Fresh
  <2> QED
      BY <1>1, <2>1, <2>2, RunnerTasks
<1>2. ASSUME NEW d \in Clients, Chat(d) PROVE Put1
  <2>1. CASE Goes(c, "put", "record") /\ d = c
    <3>1. PutMove(c)
        BY <1>2, <2>1, ChatMoves DEF ChatMove, FindMove, LookupMove, CreateMove, RecordMove,
                       RunMove, RaiseMove, PollMove, ReadMove, EndMove, Goes
    <3>2. chats[c].task = t
        BY <3>1 DEF PutMove, Keeps
    <3>3. tasks'[t].input = Append(tasks[t].input, c) /\ tasks[t].input \in Seq(Senders)
        BY <3>1, <3>2, Types DEF PutMove, TypeInv, TypeOK, Task
    <3> QED
        BY <3>2, <3>3, AppendedTo
  <2>2. CASE ~(Goes(c, "put", "record") /\ d = c)
    <3>1. chats[c].pc \in Sent /\ chats[c].task = t
      <4>1. CASE d = c
          BY <1>2, <2>2, <4>1, ChatMoves DEF ChatMove, FindMove, LookupMove, CreateMove,
             PutMove, RecordMove, RunMove, RaiseMove, PollMove, ReadMove, EndMove, Goes, Keeps
      <4>2. CASE d # c
          BY <1>2, <4>2, ChatFrame
      <4> QED
          BY <4>1, <4>2
    <3> QED
        BY <1>0, <1>2, <3>1, ChatTasks
  <2> QED
      BY <2>1, <2>2
<1>3. ASSUME NEW d \in Clients, OpenStream(d) \/ CancelStream(d) PROVE Put1
    BY <1>0, <1>3, StreamFrame
<1>4. CASE Restart
    BY <1>4, RestartFrame DEF InProgress
<1>5. CASE UNCHANGED <<tasks, chats>>
    BY <1>0, <1>5
<1> QED
    BY <1>1, <1>2, <1>3, <1>4, <1>5 DEF Next, StopFind, StopCancel, StopCancelThen,
                                        StopComplete, vars

LEMMA AlonePreserved ==
    ASSUME TypeInv, NotYetRun, ExecutionOfTask, NotBegun, AloneOnTask, [Next]_vars
    PROVE  AloneOnTask'
<1> USE DEF Live
<1> SUFFICES ASSUME NEW e \in Senders, NEW f \in Senders, Live(e)', Live(f)', e # f,
                    NEW t \in Senders, runs'[e].task = t, runs'[f].task = t
             PROVE  Disturbed(t)'
    BY HasTaskPreserved DEF AloneOnTask, Disturbed, HasTask
<1>1. ASSUME Live(e), Live(f), runs[e].task = t, runs[f].task = t
      PROVE  Disturbed(t)'
    BY <1>1, StaysDisturbed DEF AloneOnTask
<1>2. ASSUME NEW c \in Senders, chats[c].task \in Senders,
             chats[c].pc \in {"run", "build"}, StartExecution(c, chats[c].task)
      PROVE  Disturbed(t)'
  <2>1. CASE e # c /\ f # c
      BY <1>1, <1>2, <2>1, BeginFrame
  <2>2. CASE e = c \/ f = c
    <3>1. chats[c].task = t
        BY <1>2, <2>2, BeginFrame
    <3>2. Executing(t)
      <4>1. PICK g \in Senders : g # c /\ Live(g)' /\ runs'[g].task = t
          BY <2>2
      <4>2. runs'[g] = runs[g]
          BY <1>2, <4>1, BeginFrame
      <4> QED
          BY <4>1, <4>2 DEF Executing
    <3>3. runs'[c].beside /\ runs'[c].task = t
        BY <1>2, <3>1, <3>2, BeginFrame
    <3> QED
        BY <3>3 DEF Disturbed
  <2> QED
      BY <2>1, <2>2
<1> QED
    BY <1>1, <1>2, RunsFrame

\* An execution that does not move keeps what it has to end its output with.
LEMMA EndsFrame ==
    ASSUME TypeInv, NotYetRun, NotBegun, [Next]_vars, NEW e \in Senders, NEW t \in Senders,
           runs[e].task = t, runs'[e].task = t, runs'[e].pc = runs[e].pc,
           tasks[t].input # <<>> => tasks'[t].input # <<>> \/ Settled(t)', EndsOutput(e)
    PROVE  EndsOutput(e)'
<1>1. Settled(t) => Settled(t)'
    BY StaysSettled
<1>2. EndsOutput(e) <=>
        \/ Settled(t)
        \/ runs[e].pc \in {"scheduled", "loop", "pop"} /\ tasks[t].input # <<>>
        \/ runs[e].pc \in {"refuse", "begin", "flow", "more", "failing"}
    BY DEF EndsOutput
<1>3. (\/ Settled(t)'
       \/ runs'[e].pc \in {"scheduled", "loop", "pop"} /\ tasks'[t].input # <<>>
       \/ runs'[e].pc \in {"refuse", "begin", "flow", "more", "failing"}) => EndsOutput(e)'
    BY DEF EndsOutput, Settled, Disturbed
<1> QED
    BY <1>1, <1>2, <1>3

LEMMA RunnerEnds ==
    ASSUME TypeInv, NotYetRun, NotBegun, [Next]_vars, NEW e \in Senders, Runner(e),
           NEW t \in Senders, runs[e].task = t, EndsOutput(e)
    PROVE  /\ Live(e)' => EndsOutput(e)'
           /\ runs'[e].pc = "dead" => Settled(t)
<1> USE DEF Live
<1>0. /\ Settled(t) => Settled(t)'
      /\ runs'[e].task = t /\ Input(e) = tasks[t].input
      /\ runs[e].pc \in RunnerPC /\ RunnerMove(e)
    BY StaysSettled, RunnerFrame, RunnerMoves, Types DEF Input, TypeInv
<1>2. \/ Settled(t)
      \/ runs[e].pc \in {"scheduled", "loop", "pop"} /\ tasks[t].input # <<>>
      \/ runs[e].pc \in {"refuse", "begin", "flow", "more", "failing"}
    BY DEF EndsOutput
<1>3. (\/ Settled(t)'
       \/ runs'[e].pc \in {"scheduled", "loop", "pop"} /\ tasks'[t].input # <<>>
       \/ runs'[e].pc \in {"refuse", "begin", "flow", "more", "failing"}) => EndsOutput(e)'
    BY <1>0 DEF EndsOutput, Settled, Disturbed
<1>4. CASE tasks' = tasks /\ GoesQuietly(runs[e].pc, runs'[e].pc, Input(e) = <<>>)
    BY <1>0, <1>2, <1>3, <1>4 DEF GoesQuietly
<1>5. CASE runs[e].pc = "flow" /\ runs'[e].pc = "more"
    BY <1>3, <1>5
<1>6. ASSUME NEW kind \in EventKind \cap Terminal, Put(e, kind),
             runs'[e].pc \in {"finish", "ended", "setwaiting", "closing"}
      PROVE  EndsOutput(e)' /\ runs'[e].pc # "dead"
  <2>1. Ending(tasks'[t].output)
      BY <1>6, PutMore
  <2>2. Settled(t)'
      BY <2>1 DEF Settled
  <2> QED
      BY <1>3, <1>6, <2>2
<1>7. CASE runs[e].pc = "pop" /\ runs'[e].pc = "begin"
    BY <1>3, <1>7
<1> QED
    BY <1>0, <1>4, <1>5, <1>6, <1>7 DEF RunnerMove

LEMMA OutputEndsPreserved ==
    ASSUME TypeInv, NotYetRun, ExecutionOfTask, NotBegun, PutFirst, AloneOnTask, OutputEnds,
           [Next]_vars
    PROVE  OutputEnds'
<1> Senders \subseteq Clients
    BY DEF Clients
<1> USE DEF Live
<1>0. /\ \A e \in Senders : Live(e) => runs[e].task \in Senders /\ EndsOutput(e)
      /\ \A t \in Senders : tasks[t].execution # None /\ Done(t) => Settled(t)
      /\ \A t \in Senders : tasks[t].execution \in Senders \cup {None}
    BY Types DEF OutputEnds, TypeInv, HasTask, MaybeSender
<1>1. ASSUME NEW e \in Senders, Live(e)' PROVE EndsOutput(e)'
  <2>1. ASSUME NEW f \in Senders, Runner(f) PROVE EndsOutput(e)'
    <3>1. CASE f = e
        BY <1>0, <1>1, <2>1, <3>1, RunnerEnds, RunnerFrame
    <3>2. CASE f # e
      <4>1. Live(e) /\ runs'[e] = runs[e]
          BY <1>1, <2>1, <3>2, RunnerFrame
      <4>2. PICK t \in Senders : runs[e].task = t
          BY <1>0, <4>1
      <4>3. tasks'[t].input # tasks[t].input => Settled(t)'
        <5> SUFFICES ASSUME tasks'[t].input # tasks[t].input PROVE Settled(t)'
            OBVIOUS
        <5>1. runs[f].task = t /\ Live(f)
            BY <2>1, RunnerTasks, RunnerFrame
        <5>2. Disturbed(t)
            BY <3>2, <4>1, <4>2, <5>1 DEF AloneOnTask
        <5> QED
            BY <5>2, StaysSettled DEF Settled
      <4> QED
          BY <1>0, <4>1, <4>2, <4>3, EndsFrame
    <3> QED
        BY <3>1, <3>2
  <2>2. ASSUME NEW c \in Clients, Chat(c) PROVE EndsOutput(e)'
    <3>0. \A t \in Senders : tasks[t].input # <<>> => tasks'[t].input # <<>>
        BY <2>2, ChatTasks
    <3>1. ASSUME Live(e), runs'[e] = runs[e] PROVE EndsOutput(e)'
      <4>1. PICK t \in Senders : runs[e].task = t
          BY <1>0, <3>1
      <4> QED
          BY <1>0, <3>0, <3>1, <4>1, EndsFrame
    <3>2. CASE runs' = runs
        BY <1>1, <3>1, <3>2
    <3>3. CASE /\ c \in Senders /\ chats[c].task \in Senders
               /\ chats[c].pc \in {"run", "build"}
               /\ chats[c].pc = "run" => Done(chats[c].task)
               /\ StartExecution(c, chats[c].task)
      <4>1. CASE e # c
        <5>1. runs'[e] = runs[e]
            BY <3>3, <4>1, BeginFrame
        <5> QED
            BY <1>1, <3>1, <5>1
      <4>2. CASE e = c
        <5>1. PICK t \in Senders : chats[c].task = t
            BY <3>3
        <5>2. /\ runs'[c].pc = "scheduled" /\ runs'[c].task = t
              /\ runs'[c].beside = Executing(t)
            BY <3>3, <5>1, BeginFrame
        <5>3. CASE Executing(t)
            BY <4>2, <5>2, <5>3 DEF EndsOutput, Settled, Disturbed
        <5>4. CASE ~Executing(t) /\ tasks[t].execution # None
          <6>1. /\ runs[tasks[t].execution].task = t
                /\ runs[tasks[t].execution].pc # "none" /\ tasks[t].execution \in Senders
              BY <1>0, <5>4 DEF ExecutionOfTask
          <6>2. Done(t)
              BY <5>4, <6>1 DEF Executing, Done
          <6>3. Settled(t)'
              BY <1>0, <5>4, <6>2, StaysSettled
          <6> QED
              BY <4>2, <5>2, <6>3 DEF EndsOutput, Settled, Disturbed
        <5>5. CASE ~Executing(t) /\ tasks[t].execution = None
          <6>1. InUse(t)
              BY <3>3, <5>1 DEF InUse, Uses
          <6>2. Fresh(t)
              BY <5>5, <6>1 DEF NotBegun
          <6>3. tasks[t].input # <<>>
              BY <3>3, <5>1, <6>2 DEF PutFirst
          <6> QED
              BY <3>0, <4>2, <5>2, <6>3 DEF EndsOutput
        <5> QED
            BY <5>3, <5>4, <5>5
      <4> QED
          BY <4>1, <4>2
    <3> QED
        BY <2>2, <3>2, <3>3, ChatStarts
  <2>3. ASSUME NEW s \in Stops, StopCancel(s) PROVE EndsOutput(e)'
    <3>1. Live(e) /\ runs'[e].task = runs[e].task /\ tasks' = tasks
        BY <1>1, <2>3, StopFrame, ConstantsAssumption DEF ExecutionOfTask
    <3>2. PICK t \in Senders : runs[e].task = t
        BY <1>0, <3>1
    <3>3. CASE runs'[e].pc = runs[e].pc
        BY <1>0, <3>1, <3>2, <3>3, EndsFrame
    <3>4. CASE e \in stopped'
        BY <3>1, <3>2, <3>4 DEF EndsOutput, Settled, Disturbed
    <3> QED
        BY <2>3, <3>3, <3>4, StopFrame
  <2>4. CASE Restart
      BY <1>1, <2>4, RestartFrame
  <2>5. CASE UNCHANGED <<tasks, runs>>
    <3>1. Live(e)
        BY <1>1, <2>5
    <3>2. PICK t \in Senders : runs[e].task = t
        BY <1>0, <3>1
    <3> QED
        BY <1>0, <2>5, <3>1, <3>2, EndsFrame
  <2> QED
      BY <2>1, <2>2, <2>3, <2>4, <2>5 DEF Next, OpenStream, CancelStream, StopFind,
                                          StopComplete, vars
<1>2. ASSUME NEW t \in Senders, tasks'[t].execution # None, Done(t)'
      PROVE  Settled(t)'
  <2>0. Settled(t) => Settled(t)'
      BY StaysSettled
  <2>1. ASSUME NEW e \in Senders, tasks[t].execution = e, tasks'[t].execution = e,
               runs[e].pc = runs'[e].pc
        PROVE  Settled(t)'
      BY <1>0, <1>2, <2>0, <2>1 DEF Done
  <2>2. ASSUME NEW f \in Senders, Runner(f) PROVE Settled(t)'
    <3>1. tasks'[t].execution = tasks[t].execution /\ tasks[t].execution \in Senders
        BY <1>0, <1>2, <2>2, RunnerFrame
    <3>2. CASE tasks[t].execution = f
      <4>1. runs[f].task = t /\ runs'[f].pc = "dead" /\ Live(f)
          BY <1>2, <2>2, <3>1, <3>2, RunnerFrame DEF ExecutionOfTask, Done
      <4> QED
          BY <1>0, <2>0, <2>2, <4>1, RunnerEnds
    <3>3. CASE tasks[t].execution # f
        BY <2>1, <2>2, <3>1, <3>3, RunnerFrame
    <3> QED
        BY <3>2, <3>3
  <2>3. ASSUME NEW c \in Clients, Chat(c) PROVE Settled(t)'
    <3>1. CASE runs' = runs /\ tasks'[t].execution = tasks[t].execution
        BY <1>0, <1>2, <2>1, <3>1
    <3>2. CASE /\ c \in Senders /\ chats[c].task \in Senders
               /\ chats[c].pc \in {"run", "build"}
               /\ StartExecution(c, chats[c].task)
      <4>1. t # chats[c].task
          BY <1>2, <3>2, BeginFrame DEF Done
      <4>2. tasks'[t].execution = tasks[t].execution /\ tasks[t].execution \in Senders
          BY <1>0, <1>2, <3>2, <4>1, BeginFrame
      <4>3. tasks[t].execution # c
          BY <1>2, <3>2, <4>2, BeginFrame DEF ExecutionOfTask
      <4> QED
          BY <2>1, <3>2, <4>2, <4>3, BeginFrame
    <3> QED
        BY <2>3, <3>1, <3>2, ChatStarts
  <2>4. ASSUME NEW s \in Stops, StopCancel(s) PROVE Settled(t)'
    <3>1. PICK e \in Senders : tasks[t].execution = e /\ tasks'[t].execution = e
        BY <1>0, <1>2, <2>4, StopFrame
    <3>2. runs[e].task = t /\ runs'[e].task = t
        BY <2>4, <3>1, StopFrame, ConstantsAssumption DEF ExecutionOfTask
    <3>3. runs'[e].pc = runs[e].pc \/ e \in stopped'
        BY <2>4, StopFrame
    <3>4. CASE e \in stopped'
        BY <3>2, <3>4 DEF Settled, Disturbed
    <3> QED
        BY <2>1, <3>1, <3>3, <3>4
  <2>5. CASE Restart
      BY <1>2, <2>5, RestartFrame
  <2>6. CASE UNCHANGED <<tasks, runs>>
      BY <1>0, <1>2, <2>0, <2>6 DEF Done
  <2> QED
      BY <2>2, <2>3, <2>4, <2>5, <2>6 DEF Next, OpenStream, CancelStream, StopFind,
                                          StopComplete, vars
<1> QED
    BY <1>1, <1>2 DEF OutputEnds

LEMMA PollsPreserved ==
    ASSUME TypeInv, NotYetRun, ExecutionOfTask, NotBegun, Polls, [Next]_vars
    PROVE  Polls'
<1> Senders \subseteq Clients
    BY DEF Clients
<1> DEFINE Follows == {"poll", "read"}
<1> SUFFICES ASSUME NEW c \in Senders, chats'[c].pc \in Follows,
                    NEW t \in Senders, chats'[c].task = t
             PROVE  tasks'[t].execution # None
    BY HasTaskPreserved DEF Polls, HasTask
<1>0. ~Restart
    BY RestartFrame DEF InProgress
<1>1. tasks[t].execution # None => tasks'[t].execution # None
  <2>1. ASSUME NEW d \in Senders, chats[d].task \in Senders,
               chats[d].pc \in {"run", "build"}, StartExecution(d, chats[d].task),
               tasks[t].execution # None
        PROVE  tasks'[t].execution # None
      BY <2>1, BeginFrame, ConstantsAssumption
  <2> QED
      BY <1>0, <2>1, RunsFrame
<1>2. ASSUME chats[c].pc \in Follows, chats[c].task = t
      PROVE  tasks'[t].execution # None
    BY <1>1, <1>2 DEF Polls
<1>3. ASSUME NEW d \in Clients, Chat(d) PROVE tasks'[t].execution # None
  <2>1. CASE d # c
      BY <1>2, <1>3, <2>1, ChatMoves
  <2>2. CASE d = c
    <3>0. ChatMove(c)
        BY <1>3, <2>2, ChatMoves
    <3>1. CASE RunMove(c)
      <4>0. chats[c].task = t
          BY <3>1 DEF RunMove, Keeps
      <4>1. CASE ~Done(chats[c].task)
          BY <1>1, <4>0, <4>1 DEF Done
      <4>2. CASE StartExecution(c, chats[c].task)
        <5>1. chats[c].pc \in {"run", "build"}
            BY <3>1 DEF RunMove, Goes
        <5> QED
            BY <4>0, <4>2, <5>1, BeginFrame, ConstantsAssumption
      <4> QED
          BY <3>1, <4>1, <4>2 DEF RunMove, Goes
    <3>2. CASE PollMove(c) \/ ReadMove(c)
        BY <1>2, <3>2 DEF PollMove, ReadMove, Goes, Keeps
    <3> QED
        BY <3>0, <3>1, <3>2 DEF ChatMove, FindMove, LookupMove, CreateMove, PutMove,
                                RecordMove, RaiseMove, EndMove, Goes
  <2> QED
      BY <2>1, <2>2
<1>4. ASSUME NEW d \in Clients, OpenStream(d) \/ CancelStream(d)
      PROVE  tasks'[t].execution # None
    BY <1>2, <1>4, StreamFrame
<1>5. CASE UNCHANGED chats
    BY <1>2, <1>5
<1> QED
    BY <1>0, <1>3, <1>4, <1>5 DEF Next, Runner, StopFind, StopCancel, StopCancelThen,
                                  StopComplete, vars

\* A call that does not move keeps what it has read.
LEMMA ReadsFrame ==
    ASSUME TypeInv, NotYetRun, NotBegun, [Next]_vars, NEW c \in Senders, ReadsOn(c),
           chats'[c] = chats[c]
    PROVE  ReadsOn(c)'
<1>1. /\ Settled(c) => Settled(c)'
      /\ Disturbed(c) => Disturbed(c)'
    BY StaysSettled, StaysDisturbed
<1>2. /\ Len(tasks[c].output) <= Len(tasks'[c].output)
      /\ \A i \in 1..Len(tasks[c].output) : tasks'[c].output[i] = tasks[c].output[i]
      /\ Len(tasks[c].output) \in Nat /\ Len(tasks'[c].output) \in Nat
      /\ chats[c].pos \in Nat
    BY OutputGrows, TypesPreserved, Types DEF TypeInv, Clients
<1>3. chats'[c].pc \in {"put", "record", "run", "build", "poll", "read"} =>
          /\ chats'[c].pos <= Len(tasks'[c].output)
          /\ \A i \in 1..chats'[c].pos : tasks'[c].output[i] \notin Terminal
    BY <1>2, SMTT(60) DEF ReadsOn
<1> QED
    BY <1>1, <1>3 DEF ReadsOn

\* A call that moves reads the output in order, and leaves it at its end.
LEMMA ChatReads ==
    ASSUME TypeInv, NotYetRun, NotYetCreated, NotBegun, OutputEnds, Polls, Reads,
           [Next]_vars, NEW c \in Senders, Chat(c), chats'[c].task = c
    PROVE  ReadsOn(c)'
<1> c \in Clients
    BY DEF Clients
<1> DEFINE out == tasks[c].output
           Reading == {"put", "record", "run", "build", "poll", "read"}
<1>0. /\ ChatMove(c) /\ tasks'[c].output = out
      /\ Settled(c) => Settled(c)'
      /\ Disturbed(c) => Disturbed(c)'
    BY ChatMoves, ChatTasks, StaysSettled, StaysDisturbed
<1>1. Len(out) \in Nat /\ chats[c].pos \in Nat
    BY Types DEF TypeInv
<1>2. chats[c].pc \notin Unborn => chats[c].task = c
    BY <1>0 DEF Unborn, ChatMove, FindMove, LookupMove, CreateMove, PutMove, RecordMove,
                RunMove, RaiseMove, PollMove, ReadMove, EndMove, Goes, Keeps
<1>3. chats[c].task = c => ReadsOn(c)
    BY DEF Reads
<1>4. CASE FindMove(c) \/ LookupMove(c)
  <2>1. chats[c].pc \in Unborn /\ (chats'[c].task = chats[c].task \/ chats'[c].task \in registry)
      BY <1>4 DEF Unborn, FindMove, LookupMove, Goes, Keeps
  <2> QED
      BY <2>1 DEF NotYetCreated, Unborn
<1>5. CASE CreateMove(c)
  <2>1. CASE Goes(c, "create", "create")
      BY <2>1 DEF ReadsOn, Goes
  <2>2. CASE Goes(c, "create", "put")
    <3>1. chats'[c].pos = 0
        BY <1>5, <2>2 DEF CreateMove, Goes, Keeps, Reads
    <3> QED
        BY <1>0, <1>1, <2>2, <3>1 DEF ReadsOn, Goes
  <2> QED
      BY <1>5, <2>1, <2>2 DEF CreateMove
<1>6. CASE PutMove(c) \/ RecordMove(c) \/ RunMove(c)
  <2>1. /\ chats[c].pc \in Reading \ {"read"} /\ chats'[c].pc \in Reading \ {"read"}
        /\ chats'[c].pos = chats[c].pos /\ chats[c].task = c
      BY <1>2, <1>6 DEF PutMove, RecordMove, RunMove, Goes, Keeps, Unborn
  <2> QED
      BY <1>0, <1>3, <2>1 DEF ReadsOn
<1>7. CASE RaiseMove(c)
    BY <1>7 DEF RaiseMove, ReadsOn, Terminal
<1>8. CASE PollMove(c)
  <2>1. /\ chats[c].pc = "poll" /\ chats'[c].pc = "read" /\ chats[c].task = c
        /\ chats'[c].pos = chats[c].pos
      BY <1>2, <1>8 DEF PollMove, Goes, Keeps, Unborn
  <2>2. chats'[c].done => Settled(c)
      BY <1>8, <2>1 DEF PollMove, Polls, OutputEnds
  <2> QED
      BY <1>0, <1>3, <2>1, <2>2 DEF ReadsOn
<1>9. CASE ReadMove(c)
  <2> DEFINE pos == chats[c].pos
  <2>0. /\ chats[c].pc = "read" /\ chats[c].task = c
        /\ pos <= Len(out)
        /\ \A i \in 1..pos : out[i] \notin Terminal
        /\ chats[c].done => Settled(c)
      BY <1>2, <1>3, <1>9 DEF ReadMove, Unborn, ReadsOn
  <2>1. CASE pos < Len(out) /\ chats'[c].last = out[pos + 1]
             /\ out[pos + 1] \in Terminal /\ chats'[c].pc = "report"
      BY <2>1 DEF ReadsOn
  <2>2. CASE pos < Len(out) /\ chats'[c].pos = pos + 1
             /\ out[pos + 1] \notin Terminal /\ chats'[c].pc = "poll"
    <3>1. /\ chats'[c].pos <= Len(out)
          /\ \A i \in 1..chats'[c].pos : i \in 1..pos \/ i = pos + 1
        BY <1>1, <2>0, <2>2
    <3> QED
        BY <1>0, <2>0, <2>2, <3>1 DEF ReadsOn
  <2>3. CASE pos >= Len(out) /\ chats'[c].pos = pos /\ chats'[c].pc = "poll"
      BY <1>0, <2>0, <2>3 DEF ReadsOn
  <2>4. CASE pos >= Len(out) /\ chats'[c].pc = "report" /\ chats[c].done
    <3>1. ~Ending(out)
        BY <1>1, <2>0, <2>4 DEF Ending
    <3>2. Disturbed(c)
        BY <2>0, <2>4, <3>1 DEF Settled
    <3> QED
        BY <1>0, <2>4, <3>2 DEF ReadsOn
  <2> QED
      BY <1>9, <2>0, <2>1, <2>2, <2>3, <2>4 DEF ReadMove
<1>10. CASE EndMove(c)
  <2>1. /\ chats[c].pc = "report" /\ chats'[c].pc = "closed" /\ chats[c].task = c
        /\ chats'[c].last = chats[c].last
      BY <1>2, <1>10 DEF EndMove, Goes, Unborn
  <2> QED
      BY <1>0, <1>3, <2>1 DEF ReadsOn
<1> QED
    BY <1>0, <1>4, <1>5, <1>6, <1>7, <1>8, <1>9, <1>10 DEF ChatMove

LEMMA ReadsPreserved ==
    ASSUME TypeInv, NotYetRun, NotYetCreated, NotBegun, OutputEnds, Polls, Reads, [Next]_vars
    PROVE  Reads'
<1> Senders \subseteq Clients
    BY DEF Clients
<1> SUFFICES ASSUME NEW c \in Senders
             PROVE  /\ chats'[c].pc \in Unborn => chats'[c].pos = 0
                    /\ chats'[c].task = c => ReadsOn(c)'
    BY DEF Reads, Unborn
<1>0. /\ chats[c].pc \in Unborn => chats[c].pos = 0
      /\ chats[c].task = c => ReadsOn(c)
      /\ chats'[c].pc \in Unborn => chats[c].pc \in Unborn
    BY UnbornFrame DEF Reads, Unborn
<1>1. CASE chats'[c] = chats[c]
    BY <1>0, <1>1, ReadsFrame
<1>2. CASE Chat(c)
  <2>1. ChatMove(c)
      BY <1>2, ChatMoves
  <2>2. chats'[c].pc \in Unborn => chats'[c].pos = chats[c].pos
      BY <2>1 DEF Unborn, ChatMove, FindMove, LookupMove, CreateMove, PutMove, RecordMove,
                  RunMove, RaiseMove, PollMove, ReadMove, EndMove, Goes, Keeps
  <2> QED
      BY <1>0, <1>2, <2>2, ChatReads
<1>3. CASE OpenStream(c)
  <2>1. chats'[c].pc = "find" /\ chats'[c].pos = chats[c].pos /\ chats[c].pc = "idle"
      BY <1>3 DEF OpenStream, MayStart, TypeInv, TypeOK, ChatCall
  <2> QED
      BY <1>0, <2>1 DEF Unborn, ReadsOn
<1>4. CASE CancelStream(c)
  <2>1. chats'[c].pc = "aborted" /\ chats'[c].task = None
      BY <1>4 DEF CancelStream, NewChat, TypeInv, TypeOK
  <2> QED
      BY <2>1, ConstantsAssumption DEF Unborn
<1>5. CASE Restart
  <2>1. \/ chats'[c] = chats[c]
        \/ chats'[c].pc = "aborted" /\ chats'[c].task = None
      BY <1>5 DEF Restart, NewChat
  <2> QED
      BY <1>1, <2>1, ConstantsAssumption DEF Unborn
<1>6. ASSUME NEW d \in Clients, d # c, OpenStream(d) \/ Chat(d) \/ CancelStream(d)
      PROVE  chats'[c] = chats[c]
    BY <1>6, StreamFrame, ChatFrame
<1> QED
    BY <1>1, <1>2, <1>3, <1>4, <1>5, <1>6 DEF Next, Runner, StopFind, StopCancel,
                                              StopCancelThen, StopComplete, vars

LEMMA AnswersOwnTask == AnswerInv => OwnTaskAnswered
<1> SUFFICES ASSUME AnswerInv, NEW c \in Senders, chats[c].pc = "closed", chats[c].task = c
             PROVE  \/ chats[c].last \in Terminal
                    \/ \E e \in Senders : runs[e].task = c /\ (e \in stopped \/ runs[e].beside)
    BY DEF OwnTaskAnswered
<1> QED
    BY DEF AnswerInv, Reads, ReadsOn, Disturbed

---------------------------------------------------------------------------
(* The second inductive invariant, on top of the first.                    *)

DeepInv == Inv /\ OneInv /\ PromptInv /\ AnswerInv

LEMMA InitDeepInv == Init => DeepInv
<1> SUFFICES ASSUME Init PROVE DeepInv
    OBVIOUS
<1> USE ConstantsAssumption DEF Init
<1>1. Senders \subseteq Clients
    BY DEF Clients
<1>2. /\ \A t \in Senders : /\ tasks[t].input = <<>> /\ tasks[t].output = <<>>
                            /\ tasks[t].execution = None /\ ~tasks[t].built
      /\ \A e \in Senders : runs[e].pc = "none" /\ runs[e].task = None
      /\ \A c \in Clients : /\ chats[c].pc = "idle" /\ chats[c].task = None
                            /\ chats[c].pos = 0
      /\ doc.status = "pending" /\ registry = {}
    BY DEF NewTask, NewRun, NewChat, NewSession
<1>3. OneInv
    BY <1>2 DEF OneInv, OneStream, NewTasksNeverRan, BuildsNewTask, LiveIsLatest, Live,
                InProgress
<1>4. PromptInv
  <2>1. OwnMessages
      BY <1>2 DEF OwnMessages
  <2> QED
      BY <1>1, <1>2, <2>1 DEF PromptInv, NeverRunning, OwnTask, OwnExecution, SnapHasHistory,
                              Recorded, Live
<1>5. AnswerInv
    BY <1>1, <1>2 DEF AnswerInv, NotBegun, PutFirst, AloneOnTask, OutputEnds, Polls, Reads,
                      Fresh, Live
<1> QED
    BY <1>3, <1>4, <1>5, InitInv DEF DeepInv

LEMMA DeepInvPreserved == DeepInv /\ [Next]_vars => DeepInv'
<1> SUFFICES ASSUME DeepInv, [Next]_vars PROVE DeepInv'
    OBVIOUS
<1>1. /\ Inv /\ OneInv /\ PromptInv /\ AnswerInv
      /\ TypeInv /\ NotYetRun /\ ExecutionOfTask /\ NotYetCreated /\ StaleIsIdle
    BY DEF DeepInv, Inv
<1>2. OneInv'
    BY <1>1, OneStreamPreserved, NewTasksPreserved, BuildsPreserved, LiveIsLatestPreserved
       DEF OneInv
<1>3. PromptInv'
    BY <1>1, NeverRunningPreserved, OwnTaskPreserved, OwnMessagesPreserved,
       OwnExecutionPreserved, SnapHasHistoryPreserved, RecordedPreserved DEF PromptInv, OneInv
<1>4. AnswerInv'
    BY <1>1, NotBegunPreserved, PutFirstPreserved, AlonePreserved, OutputEndsPreserved,
       PollsPreserved, ReadsPreserved DEF AnswerInv
<1> QED
    BY <1>1, <1>2, <1>3, <1>4, InvPreserved DEF DeepInv

LEMMA DeepInvariance == Spec => []DeepInv
<1> QED
    BY InitDeepInv, DeepInvPreserved, PTL DEF Spec

---------------------------------------------------------------------------
(* The theorems.                                                           *)

\* The document, the registry, the streams and the state of every coroutine
\* stay in their types, in particular under the whole-document saves of
\* chat() and the cancellation of an execution at any await.
THEOREM TypeCorrect == Spec => []TypeOK
<1>1. Inv => TypeOK
    BY DEF Inv, TypeInv
<1> QED
    BY <1>1, Invariance, PTL

\* Until the process crashes, a session that MongoDB holds as RUNNING has an
\* execution that has its final status still to write, or a stop_session
\* about to complete it.
THEOREM Attended == Spec => []RunningIsAttended
<1>1. Inv => RunningIsAttended
    BY DEF Inv
<1> QED
    BY <1>1, Invariance, PTL

\* A task found in the registry of RedisStreamTask has not finished, so
\* stop_session never takes a finished task for one it can cancel.
THEOREM Registered == Spec => []RegisteredIsUnfinished
<1>1. Inv => RegisteredIsUnfinished
    BY DEF Inv
<1> QED
    BY <1>1, Invariance, PTL

\* Over one connection, no two executions of a task are ever under way together:
\* RedisStreamTask.run begins one only when the one before is done, and the
\* await in between, while the runner is built, lets no other call in.
THEOREM OneAtATime == Spec => []OneExecutionPerTask
<1>1. DeepInv => OneExecutionPerTask
    BY OneExecution DEF DeepInv
<1> QED
    BY <1>1, DeepInvariance, PTL

\* The history a chat-mode model is asked with holds the message it answers,
\* although chat() saves the document whole as it read it a few awaits before.
THEOREM PromptComplete == Spec => []PromptHasMessage
<1>1. DeepInv => PromptHasMessage
    BY Prompted DEF DeepInv
<1> QED
    BY <1>1, DeepInvariance, PTL

\* The stream of a call that created its task closes on a terminal event,
\* unless stop_session cancelled an execution of the task or one began beside
\* another: whatever the order in which the execution puts its last event and
\* ends, and the call asks whether it is done and reads.
THEOREM Answered == Spec => []OwnTaskAnswered
<1>1. DeepInv => OwnTaskAnswered
    BY AnswersOwnTask DEF DeepInv
<1> QED
    BY <1>1, DeepInvariance, PTL

---------------------------------------------------------------------------
(* Liveness of stop_session.                                               *)

Stopping(s) == StopCancel(s) \/ StopComplete(s)

\* A call of stop_session has read the document and is not over.
MayStop(s) == stops[s].pc \in {"cancel", "complete"}

\* What FairSpec says of it, with the states in which it can go on written out
\* instead of ENABLED.
StopsFairly(s) == []<> ~MayStop(s) \/ []<><<Stopping(s)>>_vars

\* No step but its own, and a restart, moves a call of stop_session.
LEMMA StopMoves ==
    ASSUME NEW s \in Stops
    PROVE  TypeOK /\ restarts = MaxRestarts /\ [Next]_vars =>
              /\ restarts' = MaxRestarts
              /\ \/ stops'[s] = stops[s] /\ ~Stopping(s)
                 \/ stops[s].pc = "idle"
                 \/ stops[s].pc = "cancel" /\ stops'[s].pc = "complete"
                 \/ stops[s].pc = "complete" /\ doc'.status # "running"
<1> SUFFICES ASSUME TypeOK, restarts = MaxRestarts, [Next]_vars
             PROVE  /\ restarts' = MaxRestarts
                    /\ \/ stops'[s] = stops[s] /\ ~Stopping(s)
                       \/ stops[s].pc = "idle"
                       \/ stops[s].pc = "cancel" /\ stops'[s].pc = "complete"
                       \/ stops[s].pc = "complete" /\ doc'.status # "running"
    OBVIOUS
<1>0. /\ stops \in [Stops -> StopCall] /\ doc \in Session
      /\ restarts \in 0..MaxRestarts /\ MaxRestarts \in Nat
    BY ConstantsAssumption DEF TypeOK
<1>1. ~Restart
    <2>1. Restart => restarts < MaxRestarts
        BY Zenon DEF Restart
    <2> QED
        BY <1>0, <2>1
<1>2. CASE UNCHANGED <<stops, restarts>>
    <2>1. Stopping(s) => stops'[s] # stops[s]
        BY <1>0 DEF Stopping, StopCancel, StopCancelThen, StopComplete, StopCall
    <2> QED
        BY <1>2, <2>1
<1>3. ASSUME NEW t \in Stops, StopFind(t) \/ StopCancel(t) \/ StopComplete(t)
      PROVE  /\ restarts' = MaxRestarts
             /\ \/ stops'[s] = stops[s] /\ ~Stopping(s)
                \/ stops[s].pc = "idle"
                \/ stops[s].pc = "cancel" /\ stops'[s].pc = "complete"
                \/ stops[s].pc = "complete" /\ doc'.status # "running"
    <2>1. restarts' = MaxRestarts
        BY <1>3 DEF StopFind, StopCancel, StopCancelThen, StopComplete
    <2>2. CASE t # s
        <3>1. stops'[s] = stops[s]
            BY <1>0, <1>3, <2>2 DEF StopFind, StopCancel, StopCancelThen, StopComplete
        <3>2. Stopping(s) => stops'[s] # stops[s]
            BY <1>0 DEF Stopping, StopCancel, StopCancelThen, StopComplete, StopCall
        <3> QED
            BY <2>1, <3>1, <3>2
    <2>3. CASE t = s
        BY <1>0, <1>3, <2>1, <2>3
        DEF StopFind, StopCancel, StopCancelThen, StopComplete, StopCall, Completed, Session
    <2> QED
        BY <2>2, <2>3
<1>4. ASSUME \/ \E e \in Senders : Runner(e)
             \/ \E c \in Clients : OpenStream(c) \/ Chat(c) \/ CancelStream(c)
             \/ UNCHANGED vars
      PROVE  UNCHANGED <<stops, restarts>>
    BY <1>4 DEF Runner, OpenStream, Chat, CancelStream, vars
<1> QED
    BY <1>1, <1>2, <1>3, <1>4 DEF Next

\* stop_session frees every session, whether a task of it is registered or was
\* lost in a crash: a call that has read the document, and is not lost itself in
\* another crash, brings the session out of RUNNING, whatever chats, executions
\* and other calls of stop_session do in between.
THEOREM StopsFree == Spec /\ (\A s \in Stops : StopsFairly(s)) => StopFrees
<1> SUFFICES ASSUME NEW s \in Stops
             PROVE  Spec /\ (\A t \in Stops : StopsFairly(t)) =>
                       (restarts = MaxRestarts /\ stops[s].pc = "cancel" ~> doc.status # "running")
    BY DEF StopFrees
<1> DEFINE Last == restarts = MaxRestarts
           Cancelling == stops[s].pc = "cancel"
           Completing == stops[s].pc = "complete"
           Free == doc.status # "running"
<1>1. (\A t \in Stops : StopsFairly(t)) => StopsFairly(s)
    OBVIOUS
<1>2. TypeOK /\ Last /\ [Next]_vars =>
         /\ Last'
         /\ Cancelling => Completing' \/ (Cancelling' /\ ~Stopping(s))
         /\ Completing => Free' \/ (Completing' /\ ~Stopping(s))
    BY StopMoves
<1>3. Cancelling \/ Completing => MayStop(s)
    BY DEF MayStop
<1> QED
    BY <1>1, <1>2, <1>3, TypeCorrect, PTL DEF Spec, StopsFairly

\* Weak fairness says the same, once it is known that the states written out are
\* those in which stop_session is enabled.
Readiness == \A s \in Stops : MayStop(s) <=> ENABLED <<Stopping(s)>>_vars

\* The same of FairSpec, which TLC checks it of.
COROLLARY StopsFreeFairly == FairSpec /\ []Readiness => StopFrees
<1>1. ASSUME NEW s \in Stops PROVE StopFairness(s) /\ []Readiness => StopsFairly(s)
    <2>1. Readiness =>
             (MayStop(s) <=> ENABLED <<StopCancel(s) \/ StopComplete(s)>>_vars)
        BY DEF Readiness, Stopping
    <2> QED
        BY <2>1, PTL DEF StopFairness, StopsFairly, Stopping
<1>2. FairSpec => Spec /\ \A s \in Stops : StopFairness(s)
    BY PTL DEF FairSpec
<1>3. (\A s \in Stops : StopFairness(s)) /\ []Readiness => \A s \in Stops : StopsFairly(s)
    BY <1>1
<1> QED
    BY <1>2, <1>3, StopsFree
=============================================================================
