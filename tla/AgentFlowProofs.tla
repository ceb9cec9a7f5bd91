---------------------------- MODULE AgentFlowProofs ----------------------------
(***************************************************************************)
(* Theorems about AgentFlow, for any number of messages, steps, tool calls *)
(* and iterations.                                                         *)
(***************************************************************************)
EXTENDS AgentFlow, WellFoundedInduction, SequenceTheorems, TLAPS

LoopRecord == [op: Operation, at: LoopAt, call: Nat, output: BOOLEAN,
               streak: 0..MaxNudges + 1, turns: 0..MaxIterations]
MemoryRecord == [open: Seq(Call), broken: BOOLEAN]

-----------------------------------------------------------------------------
(* Plans.                                                                  *)

LEMMA HasLeast ==
    ASSUME NEW S, S \subseteq Nat, S # {}
    PROVE  \E i \in S : \A j \in S : i <= j
<1>1. PICK i \in S : \A j \in S : <<j, i>> \notin OpToRel(<, Nat)
  BY NatLessThanWellFounded, WFMin, Zenon
<1>2. ASSUME NEW j \in S PROVE ~ (j < i)
  BY <1>1, <1>2 DEF OpToRel
<1>3. \A j \in S : i <= j
  BY <1>2
<1> QED BY <1>3

\* The next step is the first one that is not done.
LEMMA NextIsFirst ==
    ASSUME NEW p \in Seq(Step)
    PROVE  /\ Pending(p) = {} => NextStep(p) = 0
           /\ Pending(p) # {} => /\ NextStep(p) \in Pending(p)
                                 /\ \A i \in 1..NextStep(p) - 1 : IsDone(p[i])
           /\ Pending(p) \subseteq 1..Len(p)
           /\ NextStep(p) \in 0..Len(p)
           /\ NextStep(p) = 0 <=> Pending(p) = {}
<1>1. Pending(p) \subseteq 1..Len(p)
  BY DEF Pending
<1>2. CASE Pending(p) = {}
  BY <1>1, <1>2 DEF NextStep
<1>3. CASE Pending(p) # {}
  <2>1. \E i \in Pending(p) : \A j \in Pending(p) : i <= j
    BY <1>1, <1>3, HasLeast
  <2>2. /\ NextStep(p) \in Pending(p)
        /\ \A j \in Pending(p) : NextStep(p) <= j
    BY <1>3, <2>1 DEF NextStep
  <2>3. NextStep(p) \in 1..Len(p)
    BY <1>1, <2>2
  <2>4. \A i \in 1..NextStep(p) - 1 : IsDone(p[i])
    BY <2>2, <2>3 DEF Pending
  <2> QED BY <1>1, <1>3, <2>2, <2>3, <2>4
<1> QED BY <1>2, <1>3

Mark(p, i, s) == [p EXCEPT ![i] = [p[i] EXCEPT !.status = s]]

\* Setting the status of one step leaves the others, and its id, alone.
LEMMA Marked ==
    ASSUME NEW p \in Seq(Step), NEW i \in 1..Len(p), NEW s \in StepStatus
    PROVE  /\ Mark(p, i, s) \in Seq(Step) /\ Len(Mark(p, i, s)) = Len(p)
           /\ Mark(p, i, s)[i].status = s
           /\ \A j \in 1..Len(p) : j # i => Mark(p, i, s)[j] = p[j]
           /\ \A j \in 1..Len(p) : Mark(p, i, s)[j].id = p[j].id
           /\ [p EXCEPT ![i].status = s] = Mark(p, i, s)
<1> DEFINE n == [p[i] EXCEPT !.status = s]
           q == [p EXCEPT ![i] = n]
<1>1. p[i] \in Step
  BY ElementOfSeq
<1>2. n \in Step /\ n.id = p[i].id /\ n.status = s
  BY <1>1 DEF Step
<1> HIDE DEF n
<1>3. /\ q \in Seq(Step) /\ Len(q) = Len(p) /\ q[i] = n
      /\ \A j \in 1..Len(p) : j # i => q[j] = p[j]
  BY <1>2, ExceptSeq
<1>4. [p EXCEPT ![i].status = s] = q
  BY DEF n
<1>5. \A j \in 1..Len(p) : q[j].id = p[j].id
  BY <1>2, <1>3
<1>6. Mark(p, i, s) = q
  BY DEF Mark, n
<1> QED BY <1>2, <1>3, <1>4, <1>5, <1>6

\* The steps the planner submits are new.
LEMMA NewOnes ==
    ASSUME ids \in Nat, NEW n \in Nat, ids + n <= MaxIds, FlowConstants
    PROVE  /\ NewSteps(n) \in Seq(Step) /\ Len(NewSteps(n)) = n
           /\ \A i \in 1..n : /\ NewSteps(n)[i].id = ids + i
                              /\ NewSteps(n)[i].status = "pending"
<1>1. \A i \in 1..n : [id |-> ids + i, status |-> "pending"] \in Step
  BY FlowConstants DEF Step, StepStatus
<1> QED BY <1>1 DEF NewSteps

\* An update keeps the steps that are done, up to the first that is not, and
\* replaces the others if there are any.
LEMMA UpdatedParts ==
    ASSUME NEW p \in Seq(Step), NEW new \in Seq(Step)
    PROVE  /\ Updated(p, new) \in Seq(Step)
           /\ Pending(p) = {} => Updated(p, new) = p
           /\ Pending(p) # {} =>
                /\ NextStep(p) \in 1..Len(p)
                /\ Len(Updated(p, new)) = NextStep(p) - 1 + Len(new)
                /\ \A i \in 1..NextStep(p) - 1 : /\ Updated(p, new)[i] = p[i]
                                                 /\ IsDone(p[i])
                /\ \A i \in NextStep(p)..Len(Updated(p, new)) :
                      Updated(p, new)[i] = new[i - (NextStep(p) - 1)]
<1>1. CASE Pending(p) = {}
  BY <1>1 DEF Updated
<1>2. CASE Pending(p) # {}
  <2> DEFINE m == NextStep(p) - 1
             kept == SubSeq(p, 1, m)
  <2>1. NextStep(p) \in 1..Len(p) /\ \A i \in 1..m : IsDone(p[i])
    BY <1>2, NextIsFirst
  <2>2. m \in 0..Len(p) /\ Updated(p, new) = kept \o new
    <3>1. Updated(p, new) = kept \o new
      BY <1>2 DEF Updated
    <3>2. Len(p) \in Nat
      OBVIOUS
    <3> QED BY <2>1, <3>1, <3>2
  <2>3. kept \in Seq(Step) /\ Len(kept) = m /\ \A i \in 1..m : kept[i] = p[i]
    <3>1. \A i \in 1..m : p[i] \in Step
      BY <2>2, ElementOfSeq
    <3> HIDE DEF m
    <3> QED BY <2>2, <3>1, SubSeqProperties
  <2> HIDE DEF m, kept
  <2>4. /\ kept \o new \in Seq(Step) /\ Len(kept \o new) = m + Len(new)
        /\ \A i \in 1..m + Len(new) :
              (kept \o new)[i] = IF i <= m THEN kept[i] ELSE new[i - m]
    BY <2>3, ConcatProperties
  <2>5. m = NextStep(p) - 1 /\ m \in Nat /\ Len(new) \in Nat
    BY <2>2 DEF m
  <2> QED BY <1>2, <2>1, <2>2, <2>3, <2>4, <2>5
<1> QED BY <1>1, <1>2

\* What the model replies with is a sequence of calls.
LEMMA BatchesAreCalls ==
    ASSUME NEW op, NEW calls \in Batches(op) \cup {<<>>}, FlowConstants
    PROVE  calls \in Seq(Call) /\ Len(calls) \in 0..MaxBatch
<1>1. CASE calls = <<>>
  BY <1>1, FlowConstants
<1>2. CASE calls \in Batches(op)
  <2>1. PICK n \in 1..MaxBatch :
            calls \in [1..n -> IF AgentOf(op) = "planner" THEN PlannerCall ELSE Call]
    BY <1>2 DEF Batches
  <2>2. calls \in [1..n -> Call] /\ n \in Nat
    BY <2>1 DEF PlannerCall, Call
  <2> QED BY <2>2
<1> QED BY <1>1, <1>2

-----------------------------------------------------------------------------
(* Types, and where the runner, the flow and the loop can be together.     *)

Places ==
    /\ inbox <= sent
    /\ loop.at = "off" => loop = NoLoop
    /\ loop.at # "off" => runner = "flow" /\ loop.op # "none"
    /\ runner = "flow" => doc = "running"
    /\ runner = "none" => status = "idle"
    /\ runner = "between" /\ doc # "running" => status = "idle"
    /\ loop.op = "plan" => status = "planning"
    /\ loop.op = "step" => status = "executing"
    /\ loop.op = "update" => status = "updating"
    /\ loop.op = "summary" => status = "summarizing"
    /\ loop.at = "announce" => loop.op = "plan"
    /\ loop.at = "asking" => loop.op = "step"
    /\ loop.at = "calls" => loop.turns < MaxIterations

\* The flow is at its first step, and past those that are done.
Passed ==
    runner = "flow" =>
        /\ status \in {"idle", "planning"} => step = 0
        /\ loop.op = "step" => step # 0 /\ \A i \in 1..step - 1 : IsDone(plan[i])
        /\ status = "updating" => \A i \in 1..step : IsDone(plan[i])

\* FlowTypeOK, with its sets of records named.
Typed ==
    /\ doc \in {"pending", "running", "waiting", "completed"}
    /\ inbox \in 0..MaxMessages
    /\ runner \in {"none", "between", "flow"}
    /\ status \in FlowStatus
    /\ plan \in Seq(Step) /\ recorded \in Seq(Step)
    /\ step \in 0..Len(plan)
    /\ memory \in [Agents -> MemoryRecord]
    /\ loop \in LoopRecord
    /\ sent \in 0..MaxMessages /\ ids \in 0..MaxIds
    /\ finished \subseteq 1..MaxIds
    /\ asker \in 0..MaxIds
    /\ unrecorded \in BOOLEAN
    /\ cut \subseteq Agents

Control == Typed /\ Places /\ Passed

LEMMA ControlTypes == Control => FlowTypeOK
BY DEF Control, Typed, FlowTypeOK, MemoryRecord, LoopRecord

LEMMA SomeTypes ==
    NoLoop \in LoopRecord /\ Me \in Agents /\ <<>> \in Seq(Step) /\ <<>> \in Seq(Call)
BY FlowConstants DEF LoopRecord, NoLoop, Me, AgentOf, Agents, Operation, LoopAt

LEMMA YieldEffect ==
    ASSUME NEW next, NEW asking, Yield(next, asking)
    PROVE  \/ runner' = "between" /\ loop' = NoLoop /\ asker' = 0
           \/ runner' = runner /\ loop' = next /\ asker' = asking
BY DEF Yield

LEMMA AskingType ==
    ASSUME NEW op \in Operation
    PROVE  /\ Asking(op) \in LoopRecord
           /\ Asking(op).at = "ask" /\ Asking(op).op = op
BY SomeTypes DEF Asking, LoopRecord, LoopAt

\* A call with open results that is followed by something else is broken.
LEMMA RequestMemory ==
    ASSUME Typed, NEW op \in Operation, Request(op)
    PROVE  /\ memory' \in [Agents -> MemoryRecord]
           /\ \A a \in Agents : a # AgentOf(op) => memory'[a] = memory[a]
           /\ AgentOf(op) \in Agents
           /\ memory'[AgentOf(op)].open = <<>>
           /\ memory'[AgentOf(op)].broken =>
                 memory[AgentOf(op)].broken \/ memory[AgentOf(op)].open # <<>>
<1> DEFINE a == AgentOf(op)
           m == AddOther(memory[a])
<1>1. a \in Agents /\ memory \in [Agents -> MemoryRecord]
  BY DEF Typed, AgentOf, Agents
<1>2. memory[a].broken \in BOOLEAN
  BY <1>1 DEF MemoryRecord
<1>3. /\ m.broken \in BOOLEAN /\ m.open \in Seq(Call)
      /\ m = [open |-> m.open, broken |-> m.broken]
  BY <1>2 DEF AddOther
<1>4. m \in MemoryRecord /\ m.open = <<>>
      /\ (m.broken => memory[a].broken \/ memory[a].open # <<>>)
  BY <1>3 DEF AddOther, MemoryRecord
<1>5. memory' = [memory EXCEPT ![a] = m]
  BY DEF Request
<1> HIDE DEF m, a
<1>6. /\ memory' \in [Agents -> MemoryRecord] /\ memory'[a] = m
      /\ \A b \in Agents : b # a => memory'[b] = memory[b]
  BY <1>1, <1>4, <1>5
<1> QED BY <1>1, <1>4, <1>6 DEF a

\* The runner is gone: what the six steps that end it have in common.
GoneStep == EndRunner \/ Raise \/ Stop \/ Die \/ WaitForUser \/ PlanNotCreated

LEMMA GoneFrame ==
    ASSUME GoneStep
    PROVE  /\ Gone
           /\ UNCHANGED <<sent, recorded, ids, memory, finished, unrecorded, cut>>
           /\ inbox' \in {inbox, 0}
           /\ \/ doc' = "completed" /\ asker' = 0
              \/ doc' = doc /\ asker' = 0
              \/ /\ doc' = "completed" /\ asker' = asker
                 /\ runner = "between" /\ inbox = 0
              \/ /\ doc' = "waiting" /\ asker' = plan[step].id
                 /\ Looping("asking")
<1>1. CASE EndRunner
  BY <1>1 DEF EndRunner, history
<1>2. CASE Raise \/ Stop
  BY <1>2 DEF Raise, Stop
<1>3. CASE Die
  BY <1>3 DEF Die
<1>4. CASE WaitForUser
  BY <1>4 DEF WaitForUser
<1>5. CASE PlanNotCreated
  BY <1>5 DEF PlanNotCreated
<1> QED BY <1>1, <1>2, <1>3, <1>4, <1>5 DEF GoneStep

LEMMA InitControl == FlowInit => Control
<1> SUFFICES ASSUME FlowInit PROVE Control
  OBVIOUS
<1>1. memory \in [Agents -> MemoryRecord]
  BY SomeTypes DEF FlowInit, MemoryRecord
<1>2. Typed
  <2>1. plan = <<>> /\ Len(<<>>) = 0 /\ step = 0
    BY DEF FlowInit
  <2>2. step \in 0..Len(plan)
    BY <2>1
  <2>3. plan \in Seq(Step) /\ recorded \in Seq(Step)
    BY SomeTypes DEF FlowInit
  <2>4. loop \in LoopRecord
    BY SomeTypes DEF FlowInit
  <2>5. /\ doc = "pending" /\ inbox = 0 /\ runner = "none" /\ status = "idle"
        /\ sent = 0 /\ ids = 0 /\ finished = {} /\ asker = 0 /\ unrecorded = FALSE
        /\ cut = {}
    BY DEF FlowInit
  <2>6. /\ inbox \in 0..MaxMessages /\ sent \in 0..MaxMessages
        /\ ids \in 0..MaxIds /\ asker \in 0..MaxIds
    BY <2>5, FlowConstants
  <2>7. unrecorded \in BOOLEAN
    BY <2>5
  <2>8. finished \subseteq 1..MaxIds /\ cut \subseteq Agents
    BY <2>5
  <2>9. /\ status \in FlowStatus /\ doc \in {"pending", "running", "waiting", "completed"}
        /\ runner \in {"none", "between", "flow"}
    BY <2>5 DEF FlowStatus
  <2> QED BY <1>1, <2>2, <2>3, <2>4, <2>6, <2>7, <2>8, <2>9 DEF Typed
<1>3. Places /\ Passed
  BY FlowConstants DEF FlowInit, Places, Passed, NoLoop
<1> QED BY <1>2, <1>3 DEF Control

LEMMA GoneControl == ASSUME Control, GoneStep PROVE Control'
<1>1. Typed /\ Places /\ Passed
  BY DEF Control
<1>2. /\ Gone /\ inbox' \in {inbox, 0}
      /\ UNCHANGED <<sent, recorded, ids, memory, finished, unrecorded, cut>>
  BY GoneFrame
<1>3. doc' \in {"completed", "waiting", doc} /\ asker' \in 0..MaxIds
  <2>1. CASE asker' \in {0, asker}
    BY <1>1, <2>1, GoneFrame, FlowConstants DEF Typed
  <2>2. CASE asker' = plan[step].id /\ Looping("asking")
    <3>1. step \in 1..Len(plan)
      BY <1>1, <2>2 DEF Passed, Places, Looping, Typed
    <3>2. plan[step] \in Step
      BY <1>1, <3>1, ElementOfSeq DEF Typed
    <3> QED BY <2>2, <3>2, GoneFrame DEF Step
  <2> QED BY <2>1, <2>2, GoneFrame
<1>4. Typed'
  BY <1>1, <1>2, <1>3, SomeTypes, FlowConstants DEF Typed, Gone, FlowStatus
<1>5. Places' /\ Passed'
  BY <1>1, <1>2, <1>3 DEF Places, Passed, Gone, NoLoop, Typed
<1> QED BY <1>4, <1>5 DEF Control

LEMMA MessageControl == ASSUME Control, Message PROVE Control'
<1>1. Typed /\ Places /\ Passed
  BY DEF Control
<1>2. /\ sent < MaxMessages /\ sent' = sent + 1
      /\ inbox' \in {inbox + 1, 1}
      /\ runner' \in {runner, "between"}
      /\ runner # "none" => runner' = runner
      /\ UNCHANGED <<doc, status, plan, recorded, step, ids, memory, loop, finished,
                     asker, unrecorded, cut>>
  BY DEF Message, progress, history
<1>3. Typed'
  BY <1>1, <1>2, FlowConstants DEF Typed, Places
<1>4. Places' /\ Passed'
  BY <1>1, <1>2, FlowConstants DEF Places, Passed, Typed
<1> QED BY <1>3, <1>4 DEF Control

\* The runner breaks out of the flow.
LEMMA Interrupted ==
    ASSUME Control, runner = "flow", runner' = "between", loop' = NoLoop,
           UNCHANGED <<doc, inbox, sent>>
    PROVE  Places' /\ Passed'
BY DEF Control, Places, Passed, NoLoop

LEMMA RollBackType ==
    ASSUME NEW m \in MemoryRecord
    PROVE  /\ RollBack(m) \in MemoryRecord
           /\ RollBack(m).open = <<>>
           /\ RollBack(m).broken => m.broken \/ HalfAnswered(m)
<1>1. /\ m.open \in Seq(Call) /\ m.broken \in BOOLEAN
      /\ m = [open |-> m.open, broken |-> m.broken]
  BY DEF MemoryRecord
<1>2. CASE m.open # <<>> /\ Head(m.open) = "ask"
  <2>1. (m.broken \/ Len(m.open) > 1) \in BOOLEAN
    BY <1>1
  <2>2. RollBack(m) = [open |-> <<>>, broken |-> m.broken \/ Len(m.open) > 1]
    BY <1>2 DEF RollBack
  <2> QED BY <1>1, <1>2, <2>1, <2>2, SomeTypes DEF MemoryRecord, HalfAnswered
<1>3. CASE ~ (m.open # <<>> /\ Head(m.open) = "ask")
  <2>1. RollBack(m) = [m EXCEPT !.open = <<>>]
    BY <1>3 DEF RollBack
  <2> QED BY <1>1, <2>1, SomeTypes DEF MemoryRecord
<1> QED BY <1>2, <1>3

LEMMA BeginMemory ==
    ASSUME Typed, BeginFlow
    PROVE  /\ memory' \in [Agents -> MemoryRecord]
           /\ cut \subseteq cut' /\ cut' \subseteq Agents
           /\ \/ doc = "pending" /\ memory' = memory
              \/ \A a \in Agents : /\ memory'[a].open = <<>>
                                   /\ memory'[a].broken => memory[a].broken \/ a \in cut'
<1>1. CASE doc = "pending"
  BY <1>1 DEF BeginFlow, Typed
<1>2. CASE doc # "pending"
  <2>1. /\ memory' = [a \in Agents |-> RollBack(memory[a])]
        /\ cut' = cut \cup {a \in Agents : HalfAnswered(memory[a])}
    BY <1>2 DEF BeginFlow
  <2>2. \A a \in Agents : memory[a] \in MemoryRecord
    BY DEF Typed
  <2>3. \A a \in Agents :
           /\ RollBack(memory[a]) \in MemoryRecord
           /\ RollBack(memory[a]).open = <<>>
           /\ RollBack(memory[a]).broken => memory[a].broken \/ HalfAnswered(memory[a])
    BY <2>2, RollBackType
  <2> QED BY <2>1, <2>3 DEF Typed
<1> QED BY <1>1, <1>2

LEMMA BeginControl == ASSUME Control, BeginFlow PROVE Control'
<1>1. Typed /\ Places /\ Passed
  BY DEF Control
<1>2. /\ runner = "between" /\ runner' = "flow" /\ inbox > 0 /\ inbox' = inbox - 1
      /\ doc' = "running" /\ plan' = recorded /\ step' = 0
      /\ status' = Resumed(doc)
      /\ UNCHANGED <<recorded, ids, sent, loop, finished, asker, unrecorded>>
  BY DEF BeginFlow, history
<1>3. /\ status' \in {"planning", "executing", status} /\ status' \in FlowStatus
      /\ status' = "executing" \/ status' = "planning" \/ status' = "idle"
  BY <1>1, <1>2 DEF Resumed, FlowStatus, Places, Typed
<1>4. loop.at = "off" /\ loop = NoLoop
  BY <1>1, <1>2 DEF Places
<1>5. Typed'
  BY <1>1, <1>2, <1>3, BeginMemory, FlowConstants DEF Typed
<1>6. Places' /\ Passed'
  BY <1>1, <1>2, <1>3, <1>4 DEF Places, Passed, NoLoop, Typed
<1> QED BY <1>5, <1>6 DEF Control

LEMMA StartControl ==
    ASSUME Control, StartPlanning \/ StartSummary \/ StartUpdate
    PROVE  Control'
<1>1. Typed /\ Places /\ Passed
  BY DEF Control
<1>2. PICK op \in {"plan", "summary", "update"} :
         /\ loop' = Asking(op) /\ Request(op)
         /\ op = "plan" => status \in {"idle", "planning"} /\ status' = "planning"
         /\ op = "summary" => /\ status' = "summarizing"
         /\ op = "update" => status = "updating" /\ status' = "updating"
  BY DEF StartPlanning, StartSummary, StartUpdate, progress
<1>3. /\ runner = "flow"
      /\ UNCHANGED <<doc, inbox, runner, sent, plan, recorded, step, ids, finished,
                     asker, unrecorded, cut>>
  BY DEF StartPlanning, StartSummary, StartUpdate, Idle, session, progress, history
<1>4. op \in Operation
  BY <1>2 DEF Operation
<1>5. memory' \in [Agents -> MemoryRecord]
  BY <1>1, <1>2, <1>4, RequestMemory
<1>6. loop' \in LoopRecord /\ loop'.at = "ask" /\ loop'.op = op
  BY <1>2, <1>4, AskingType
<1>7. Typed'
  BY <1>1, <1>2, <1>3, <1>5, <1>6 DEF Typed, FlowStatus
<1>8. Places' /\ Passed'
  BY <1>1, <1>2, <1>3, <1>6 DEF Places, Passed
<1> QED BY <1>7, <1>8 DEF Control

LEMMA StartStepControl == ASSUME Control, StartStep PROVE Control'
<1>1. Typed /\ Places /\ Passed
  BY DEF Control
<1>2. /\ runner = "flow" /\ status = "executing" /\ NextStep(plan) # 0
      /\ step' = NextStep(plan)
      /\ plan' = [plan EXCEPT ![NextStep(plan)].status = "running"]
      /\ UNCHANGED <<doc, inbox, sent, status, recorded, ids, finished, unrecorded, cut>>
  BY DEF StartStep, Idle
<1>3. /\ NextStep(plan) \in 1..Len(plan)
      /\ \A i \in 1..NextStep(plan) - 1 : IsDone(plan[i])
  BY <1>1, <1>2, NextIsFirst DEF Typed
<1>4. /\ plan' \in Seq(Step) /\ Len(plan') = Len(plan)
      /\ \A i \in 1..Len(plan) : i # NextStep(plan) => plan'[i] = plan[i]
  <2>1. "running" \in StepStatus /\ plan \in Seq(Step)
    BY <1>1 DEF StepStatus, Typed
  <2>2. plan' = Mark(plan, NextStep(plan), "running")
    BY <1>2, <1>3, <2>1, Marked
  <2> QED BY <1>3, <2>1, <2>2, Marked
<1>5. memory' \in [Agents -> MemoryRecord]
  <2>1. "step" \in Operation
    BY DEF Operation
  <2> QED BY <1>1, <2>1, RequestMemory DEF StartStep, Typed
<1>6. loop' \in {Asking("step"), NoLoop} /\ loop' \in LoopRecord
      /\ asker' \in {0, asker} /\ runner' \in {"flow", "between"}
  BY <1>2, AskingType, SomeTypes, YieldEffect DEF StartStep, Operation
<1>7. Typed'
  <2>1. step' \in 0..Len(plan')
    BY <1>2, <1>3, <1>4
  <2>2. asker' \in 0..MaxIds
    BY <1>1, <1>6, FlowConstants DEF Typed
  <2> QED BY <1>1, <1>2, <1>4, <1>5, <1>6, <2>1, <2>2 DEF Typed
<1>8. CASE runner' = "between" /\ loop' = NoLoop
  BY <1>2, <1>7, <1>8, Interrupted DEF Control
<1>9. CASE runner' = "flow" /\ loop' = Asking("step")
  <2>1. loop'.at = "ask" /\ loop'.op = "step"
    BY <1>9, AskingType DEF Operation
  <2>2. Places'
    BY <1>1, <1>2, <1>9, <2>1 DEF Places
  <2>3. \A i \in 1..step' - 1 : IsDone(plan'[i])
    <3> SUFFICES ASSUME NEW i \in 1..step' - 1 PROVE IsDone(plan'[i])
      OBVIOUS
    <3>1. i \in 1..Len(plan) /\ i # NextStep(plan) /\ i \in 1..NextStep(plan) - 1
      BY <1>2, <1>3
    <3>2. plan'[i] = plan[i]
      BY <1>4, <3>1
    <3> QED BY <1>3, <3>1, <3>2 DEF IsDone
  <2>4. Passed'
    BY <1>2, <2>1, <2>3 DEF Passed
  <2> QED BY <1>7, <2>2, <2>4 DEF Control
<1>10. \/ runner' = "between" /\ loop' = NoLoop
       \/ runner' = "flow" /\ loop' = Asking("step")
  BY <1>2, YieldEffect DEF StartStep
<1> QED BY <1>8, <1>9, <1>10

LEMMA CompleteControl == ASSUME Control, Complete PROVE Control'
<1>1. Typed /\ Places /\ Passed
  BY DEF Control
<1>2. /\ runner = "flow" /\ loop.at = "off"
      /\ recorded' = plan /\ unrecorded' = FALSE
      /\ status' = "idle" /\ runner' = "between" /\ asker' = 0
      /\ UNCHANGED <<doc, inbox, sent, plan, step, ids, memory, loop, finished, cut>>
  BY DEF Complete, Idle
<1>3. Typed'
  <2>1. unrecorded' \in BOOLEAN
    BY <1>2
  <2>2. asker' \in 0..MaxIds
    BY <1>2, FlowConstants
  <2>3. status' \in FlowStatus /\ runner' \in {"none", "between", "flow"}
    BY <1>2 DEF FlowStatus
  <2> QED BY <1>1, <1>2, <2>1, <2>2, <2>3 DEF Typed
<1>4. Places' /\ Passed'
  BY <1>1, <1>2, Interrupted DEF Control, Places
<1> QED BY <1>3, <1>4 DEF Control

\* The loop goes on with the same work.
LEMMA LoopGoesOn ==
    ASSUME Control, runner = "flow", loop.at # "off",
           loop'.op = loop.op, loop'.at # "off",
           loop'.at = "announce" => loop.op = "plan",
           loop'.at = "asking" => loop.op = "step",
           loop'.at = "calls" => loop'.turns < MaxIterations,
           UNCHANGED <<doc, inbox, sent, runner, status, step>>,
           \A i \in 1..Len(plan) : plan'[i] = plan[i] \/ (loop.op = "step" /\ i = step)
    PROVE  Places' /\ Passed'
<1>1. Typed /\ Places /\ Passed
  BY DEF Control
<1>2. step \in Nat /\ Len(plan) \in Nat /\ step <= Len(plan)
  BY <1>1 DEF Typed
<1>3. Places'
  BY <1>1 DEF Places
<1>4. ASSUME loop.op = "step" PROVE step # 0 /\ \A i \in 1..step - 1 : IsDone(plan'[i])
  <2>1. step # 0 /\ \A i \in 1..step - 1 : IsDone(plan[i])
    BY <1>1, <1>4 DEF Passed
  <2>2. \A i \in 1..step - 1 : plan'[i] = plan[i]
    BY <1>2
  <2> QED BY <2>1, <2>2 DEF IsDone
<1>5. ASSUME status = "updating" PROVE \A i \in 1..step : IsDone(plan'[i])
  <2>1. loop.op # "step"
    BY <1>1, <1>5 DEF Places
  <2>2. \A i \in 1..step : IsDone(plan[i])
    BY <1>1, <1>5 DEF Passed
  <2>3. \A i \in 1..step : plan'[i] = plan[i]
    BY <1>2, <2>1
  <2> QED BY <2>2, <2>3 DEF IsDone
<1>6. Passed'
  BY <1>1, <1>4, <1>5 DEF Passed
<1> QED BY <1>3, <1>6

\* The step at work is a step of the plan.
LEMMA AtStep ==
    ASSUME Control, loop.op = "step"
    PROVE  step \in 1..Len(plan) /\ plan[step] \in Step /\ runner = "flow" /\ loop.at # "off"
<1>1. runner = "flow" /\ loop.at # "off"
  BY DEF Control, Places, NoLoop
<1>2. step \in 1..Len(plan)
  BY <1>1 DEF Control, Typed, Passed
<1>3. plan[step] \in Step
  BY <1>2, ElementOfSeq DEF Control, Typed
<1> QED BY <1>1, <1>2, <1>3

\* A step fails; a loop for anything else leaves the plan alone.
LEMMA FailedPlan ==
    ASSUME Control
    PROVE  /\ StepFails \in Seq(Step) /\ Len(StepFails) = Len(plan)
           /\ \A i \in 1..Len(plan) : /\ StepFails[i].id = plan[i].id
                                      /\ StepFails[i] = plan[i] \/ (loop.op = "step" /\ i = step)
           /\ loop.op = "step" => StepFails[step].status = "failed"
<1>1. plan \in Seq(Step) /\ "failed" \in StepStatus
  BY DEF Control, Typed, StepStatus
<1>2. CASE loop.op = "step"
  <2>1. step \in 1..Len(plan)
    BY <1>2, AtStep
  <2>2. StepFails = Mark(plan, step, "failed")
    BY <1>1, <1>2, <2>1, Marked DEF StepFails
  <2> QED BY <1>1, <1>2, <2>1, <2>2, Marked
<1>3. CASE loop.op # "step"
  BY <1>1, <1>3 DEF StepFails
<1> QED BY <1>2, <1>3

LEMMA ReplyMemory ==
    ASSUME Typed, NEW calls \in Seq(Call), Remember(AddReply(memory[Me], calls))
    PROVE  /\ memory' \in [Agents -> MemoryRecord]
           /\ \A a \in Agents : a # Me => memory'[a] = memory[a]
           /\ memory'[Me].open = calls
           /\ memory'[Me].broken => memory[Me].broken \/ memory[Me].open # <<>>
<1> DEFINE o == AddOther(memory[Me])
           m == AddReply(memory[Me], calls)
<1>1. Me \in Agents /\ memory \in [Agents -> MemoryRecord]
  BY SomeTypes DEF Typed
<1>2. memory[Me].broken \in BOOLEAN
  BY <1>1 DEF MemoryRecord
<1>3. /\ o \in MemoryRecord
      /\ o.broken => memory[Me].broken \/ memory[Me].open # <<>>
  <2>1. o = [open |-> <<>>, broken |-> memory[Me].broken \/ memory[Me].open # <<>>]
    BY DEF AddOther
  <2> QED BY <1>2, <2>1, SomeTypes DEF MemoryRecord
<1>4. m = [o EXCEPT !.open = calls]
  BY DEF AddReply
<1> HIDE DEF o
<1>5. m \in MemoryRecord /\ m.open = calls /\ m.broken = o.broken
  BY <1>3, <1>4 DEF MemoryRecord
<1>6. memory' = [memory EXCEPT ![Me] = m]
  BY DEF Remember
<1> HIDE DEF m
<1> QED BY <1>1, <1>3, <1>5, <1>6

\* What a reply of the model does: the loop fails, is nudged, or has calls.
LEMMA ReplyFrame ==
    ASSUME Control, Reply
    PROVE  \E calls \in Seq(Call) :
              /\ Remember(AddReply(memory[Me], calls))
              /\ loop.at = "ask" /\ runner = "flow"
              /\ UNCHANGED <<doc, inbox, sent, status, recorded, step, ids, finished,
                             unrecorded>>
              /\ \/ /\ plan' = StepFails
                    /\ cut' = IF calls = <<>> THEN cut ELSE cut \cup {Me}
                    /\ \/ runner' = "between" /\ loop' = NoLoop /\ asker' = 0
                       \/ /\ runner' = runner /\ asker' = asker
                          /\ loop' = [loop EXCEPT !.at = "failed"]
                 \/ /\ calls = <<>> /\ loop.turns < MaxIterations /\ loop.streak < MaxNudges
                    /\ loop' = [loop EXCEPT !.streak = loop.streak + 1,
                                            !.turns = loop.turns + 1]
                    /\ UNCHANGED <<runner, asker, cut, plan>>
                 \/ /\ loop.turns < MaxIterations
                    /\ loop' = [loop EXCEPT !.at = "calls", !.call = 1, !.streak = 0,
                                            !.output = FALSE]
                    /\ UNCHANGED <<runner, asker, cut, plan>>
<1>1. PICK calls \in Batches(loop.op) \cup {<<>>} :
         /\ Remember(AddReply(memory[Me], calls))
         /\ IF Ends(calls)
            THEN /\ Yield([loop EXCEPT !.at = "failed"], asker)
                 /\ cut' = IF calls = <<>> THEN cut ELSE cut \cup {Me}
                 /\ plan' = StepFails
            ELSE /\ loop' = IF calls = <<>>
                            THEN [loop EXCEPT !.streak = loop.streak + 1,
                                              !.turns = Iterated]
                            ELSE [loop EXCEPT !.at = "calls", !.call = 1, !.streak = 0,
                                              !.output = FALSE]
                 /\ UNCHANGED <<runner, asker, cut, plan>>
  BY DEF Reply
<1>2. /\ loop.at = "ask" /\ runner = "flow"
      /\ UNCHANGED <<doc, inbox, sent, status, recorded, step, ids, finished, unrecorded>>
  BY DEF Reply, Looping
<1>3. calls \in Seq(Call)
  BY BatchesAreCalls, FlowConstants
<1>4. CASE Ends(calls)
  BY <1>1, <1>2, <1>3, <1>4, YieldEffect
<1>5. CASE ~ Ends(calls)
  <2>1. loop.turns \in 0..MaxIterations /\ loop.streak \in Nat
    BY FlowConstants DEF Control, Typed, LoopRecord
  <2>2. loop.turns < MaxIterations /\ (calls = <<>> => loop.streak < MaxNudges)
    BY <1>5, <2>1, FlowConstants DEF Ends
  <2> QED BY <1>1, <1>2, <1>3, <1>5, <2>2 DEF Iterated
<1> QED BY <1>4, <1>5

LEMMA ReplyControl == ASSUME Control, Reply PROVE Control'
<1>1. Typed /\ Places /\ Passed
  BY DEF Control
<1>2. PICK calls \in Seq(Call) :
         /\ Remember(AddReply(memory[Me], calls))
         /\ loop.at = "ask" /\ runner = "flow"
         /\ UNCHANGED <<doc, inbox, sent, status, recorded, step, ids, finished,
                        unrecorded>>
         /\ \/ /\ plan' = StepFails
               /\ cut' = IF calls = <<>> THEN cut ELSE cut \cup {Me}
               /\ \/ runner' = "between" /\ loop' = NoLoop /\ asker' = 0
                  \/ /\ runner' = runner /\ asker' = asker
                     /\ loop' = [loop EXCEPT !.at = "failed"]
            \/ /\ calls = <<>> /\ loop.turns < MaxIterations /\ loop.streak < MaxNudges
               /\ loop' = [loop EXCEPT !.streak = loop.streak + 1,
                                       !.turns = loop.turns + 1]
               /\ UNCHANGED <<runner, asker, cut, plan>>
            \/ /\ loop.turns < MaxIterations
               /\ loop' = [loop EXCEPT !.at = "calls", !.call = 1, !.streak = 0,
                                       !.output = FALSE]
               /\ UNCHANGED <<runner, asker, cut, plan>>
  BY ReplyFrame
<1>3. memory' \in [Agents -> MemoryRecord]
  BY <1>1, <1>2, ReplyMemory
<1>4. loop \in LoopRecord /\ Me \in Agents
  BY <1>1, SomeTypes DEF Typed
<1>5. CASE /\ plan' = StepFails
           /\ cut' = IF calls = <<>> THEN cut ELSE cut \cup {Me}
           /\ \/ runner' = "between" /\ loop' = NoLoop /\ asker' = 0
              \/ /\ runner' = runner /\ asker' = asker
                 /\ loop' = [loop EXCEPT !.at = "failed"]
  <2>1. /\ plan' \in Seq(Step) /\ Len(plan') = Len(plan)
        /\ \A i \in 1..Len(plan) : plan'[i] = plan[i] \/ (loop.op = "step" /\ i = step)
    BY <1>5, FailedPlan
  <2>2. /\ loop' \in LoopRecord
        /\ runner' # "between" => loop'.at = "failed" /\ loop'.op = loop.op
    BY <1>4, <1>5, SomeTypes DEF LoopRecord, LoopAt
  <2>3. cut' \subseteq Agents /\ asker' \in 0..MaxIds /\ runner' \in {"between", "flow"}
    BY <1>1, <1>2, <1>4, <1>5, FlowConstants DEF Typed
  <2>4. Typed'
    BY <1>1, <1>2, <1>3, <2>1, <2>2, <2>3 DEF Typed
  <2>5. CASE runner' = "between"
    BY <1>2, <1>5, <2>4, <2>5, Interrupted DEF Control
  <2>6. CASE runner' # "between"
    <3>1. runner' = runner
      BY <1>5, <2>6
    <3> QED BY <1>2, <2>1, <2>2, <2>4, <2>6, <3>1, LoopGoesOn DEF Control
  <2> QED BY <2>5, <2>6
<1>6. CASE /\ calls = <<>> /\ loop.turns < MaxIterations /\ loop.streak < MaxNudges
           /\ loop' = [loop EXCEPT !.streak = loop.streak + 1,
                                   !.turns = loop.turns + 1]
           /\ UNCHANGED <<runner, asker, cut, plan>>
  <2>1. /\ loop.streak + 1 \in 0..MaxNudges + 1 /\ loop.turns + 1 \in 0..MaxIterations
    BY <1>4, <1>6, FlowConstants DEF LoopRecord
  <2>2. loop' \in LoopRecord /\ loop'.at = loop.at /\ loop'.op = loop.op
    BY <1>4, <1>6, <2>1 DEF LoopRecord
  <2>3. Typed'
    BY <1>1, <1>2, <1>3, <1>6, <2>2 DEF Typed
  <2> QED BY <1>2, <1>6, <2>2, <2>3, LoopGoesOn DEF Control
<1>7. CASE /\ loop.turns < MaxIterations
           /\ loop' = [loop EXCEPT !.at = "calls", !.call = 1, !.streak = 0,
                                   !.output = FALSE]
           /\ UNCHANGED <<runner, asker, cut, plan>>
  <2>1. /\ loop' \in LoopRecord /\ loop'.at = "calls" /\ loop'.op = loop.op
        /\ loop'.turns = loop.turns
    <3>1. loop' = [op |-> loop.op, at |-> "calls", call |-> 1, output |-> FALSE,
                   streak |-> 0, turns |-> loop.turns]
      BY <1>4, <1>7 DEF LoopRecord
    <3>2. loop.op \in Operation /\ loop.turns \in 0..MaxIterations /\ 0 \in 0..MaxNudges + 1
      BY <1>4, FlowConstants DEF LoopRecord
    <3> QED BY <3>1, <3>2 DEF LoopRecord, LoopAt
  <2>2. Typed'
    BY <1>1, <1>2, <1>3, <1>7, <2>1 DEF Typed
  <2> QED BY <1>2, <1>7, <2>1, <2>2, LoopGoesOn DEF Control
<1> QED BY <1>2, <1>5, <1>6, <1>7

\* The handling of one call of a reply.
HandleCall == HandleOutputCall \/ UnknownTool \/ InvokeTool \/ AskUser

LEMMA CallFrame ==
    ASSUME Control, HandleCall
    PROVE  /\ runner = "flow" /\ loop.at = "calls" /\ loop \in LoopRecord
           /\ plan' \in {plan, StepFails}
           /\ UNCHANGED <<doc, inbox, sent, status, recorded, step, ids, memory,
                          finished, unrecorded, cut>>
           /\ \/ runner' = "between" /\ loop' = NoLoop /\ asker' = 0
              \/ /\ runner' = runner /\ asker' = asker
                 /\ loop' \in LoopRecord /\ loop'.op = loop.op
                 /\ loop'.turns = loop.turns
                 /\ loop'.at = "calls" \/ (loop'.at = "asking" /\ loop.op = "step")
<1>1. loop \in LoopRecord /\ loop.call \in Nat /\ loop.call + 1 \in Nat
  BY DEF Control, Typed, LoopRecord
<1> DEFINE next == [loop EXCEPT !.call = loop.call + 1]
<1>2. /\ next \in LoopRecord /\ next.op = loop.op /\ next.turns = loop.turns
      /\ next.at = loop.at
  BY <1>1 DEF LoopRecord
<1>3. CASE HandleOutputCall
  <2>1. (TheCall = "out") \in BOOLEAN
    OBVIOUS
  <2>2. loop' = [loop EXCEPT !.call = loop.call + 1, !.output = (TheCall = "out")]
    BY <1>3 DEF HandleOutputCall
  <2>3. /\ loop' \in LoopRecord /\ loop'.op = loop.op /\ loop'.turns = loop.turns
        /\ loop'.at = loop.at
    BY <1>1, <2>1, <2>2 DEF LoopRecord
  <2> QED BY <1>1, <1>3, <2>3
          DEF HandleOutputCall, Looping, session, progress, history
<1>4. CASE UnknownTool
  <2>1. Yield(next, asker)
    BY <1>4 DEF UnknownTool
  <2> HIDE DEF next
  <2> QED BY <1>1, <1>2, <1>4, <2>1, YieldEffect DEF UnknownTool, Looping
<1>5. CASE InvokeTool
  <2>1. Yield(next, asker)
    BY <1>5 DEF InvokeTool
  <2> HIDE DEF next
  <2> QED BY <1>1, <1>2, <1>5, <2>1, YieldEffect DEF InvokeTool, Looping, progress
<1>6. CASE AskUser
  <2> DEFINE asks == [loop EXCEPT !.at = "asking"]
  <2>1. /\ asks \in LoopRecord /\ asks.op = loop.op /\ asks.turns = loop.turns
        /\ asks.at = "asking"
    BY <1>1 DEF LoopRecord, LoopAt
  <2>2. Yield(asks, asker)
    BY <1>6 DEF AskUser
  <2> HIDE DEF asks
  <2> QED BY <1>1, <1>6, <2>1, <2>2, YieldEffect DEF AskUser, Looping, progress
<1> QED BY <1>3, <1>4, <1>5, <1>6 DEF HandleCall

LEMMA CallControl == ASSUME Control, HandleCall PROVE Control'
<1>1. Typed /\ Places /\ Passed
  BY DEF Control
<1>2. /\ plan' \in Seq(Step) /\ Len(plan') = Len(plan)
      /\ \A i \in 1..Len(plan) : plan'[i] = plan[i] \/ (loop.op = "step" /\ i = step)
  BY <1>1, CallFrame, FailedPlan DEF Typed
<1>3. Typed'
  <2>1. loop' \in LoopRecord /\ asker' \in 0..MaxIds /\ runner' \in {"between", "flow"}
    BY <1>1, CallFrame, SomeTypes, FlowConstants DEF Typed
  <2> QED BY <1>1, <1>2, <2>1, CallFrame DEF Typed
<1>4. CASE runner' = "between" /\ loop' = NoLoop
  BY <1>3, <1>4, CallFrame, Interrupted DEF Control
<1>5. CASE ~ (runner' = "between" /\ loop' = NoLoop)
  <2>1. loop.turns < MaxIterations
    BY <1>1, CallFrame DEF Places
  <2>2. Places' /\ Passed'
    BY <1>2, <1>5, <2>1, CallFrame, LoopGoesOn
  <2> QED BY <1>3, <2>2 DEF Control
<1> QED BY <1>4, <1>5

LEMMA EndOfCallsControl ==
    ASSUME Control, EndOfCalls
    PROVE  /\ Control'
           /\ memory'[Me].open = <<>> /\ memory'[Me].broken = memory[Me].broken
           /\ \A a \in Agents : a # Me => memory'[a] = memory[a]
           /\ loop'.op = loop.op /\ loop'.at \in {"result", "ask"}
<1>1. Typed /\ Places /\ Passed
  BY DEF Control
<1>2. /\ runner = "flow" /\ loop.at = "calls" /\ loop.turns < MaxIterations
      /\ UNCHANGED <<doc, inbox, runner, sent, status, plan, recorded, step, ids,
                     finished, asker, unrecorded, cut>>
      /\ Remember(AddResults(memory[Me]))
      /\ loop' = IF loop.output THEN [loop EXCEPT !.at = "result"]
                 ELSE [loop EXCEPT !.at = "ask", !.turns = loop.turns + 1]
  BY <1>1 DEF EndOfCalls, Looping, Iterated, session, progress, history, Places
<1>3. loop \in LoopRecord /\ loop.turns + 1 \in 0..MaxIterations
  <2>1. loop \in LoopRecord
    BY <1>1 DEF Typed
  <2>2. loop.turns \in 0..MaxIterations /\ loop.turns < MaxIterations
    BY <1>2, <2>1 DEF LoopRecord
  <2> QED BY <2>1, <2>2, FlowConstants
<1>4. loop' \in LoopRecord /\ loop'.at \in {"result", "ask"} /\ loop'.op = loop.op
  <2>1. CASE loop.output
    BY <1>2, <1>3, <2>1 DEF LoopRecord, LoopAt
  <2>2. CASE ~ loop.output
    BY <1>2, <1>3, <2>2 DEF LoopRecord, LoopAt
  <2> QED BY <2>1, <2>2
<1>5. /\ memory' \in [Agents -> MemoryRecord]
      /\ memory'[Me].open = <<>> /\ memory'[Me].broken = memory[Me].broken
      /\ \A a \in Agents : a # Me => memory'[a] = memory[a]
  <2> DEFINE m == AddResults(memory[Me])
  <2>1. Me \in Agents /\ memory \in [Agents -> MemoryRecord]
    BY <1>1, SomeTypes DEF Typed
  <2>2. m \in MemoryRecord /\ m.open = <<>> /\ m.broken = memory[Me].broken
    BY <2>1, SomeTypes DEF AddResults, MemoryRecord
  <2>3. memory' = [memory EXCEPT ![Me] = m]
    BY <1>2 DEF Remember
  <2> HIDE DEF m
  <2> QED BY <2>1, <2>2, <2>3
<1>6. Typed'
  BY <1>1, <1>2, <1>4, <1>5 DEF Typed
<1>7. Places' /\ Passed'
  BY <1>2, <1>4, LoopGoesOn
<1> QED BY <1>4, <1>5, <1>6, <1>7 DEF Control

LEMMA OffLoop == NoLoop.at = "off" /\ NoLoop.op = "none"
BY DEF NoLoop

LEMMA PlanCreatedControl == ASSUME Control, PlanCreated PROVE Control'
<1>1. Typed /\ Places /\ Passed
  BY DEF Control
<1>2. PICK n \in 0..MaxSteps :
         ids + n <= MaxIds /\ plan' = NewSteps(n) /\ ids' = ids + n
  BY DEF PlanCreated
<1>3. /\ runner = "flow" /\ loop.at = "result" /\ loop.op = "plan" /\ status = "planning"
      /\ Yield([loop EXCEPT !.at = "announce"], asker)
      /\ UNCHANGED <<doc, inbox, sent, status, recorded, step, memory, finished,
                     unrecorded, cut>>
  BY DEF PlanCreated, Looping
<1>4. n \in Nat /\ ids \in Nat /\ step = 0
  BY <1>1, <1>3, FlowConstants DEF Typed, Passed
<1>5. plan' \in Seq(Step) /\ Len(plan') = n
  BY <1>2, <1>4, NewOnes, FlowConstants
<1>6. ids' \in 0..MaxIds
  BY <1>2, <1>4, FlowConstants
<1>7. \/ runner' = "between" /\ loop' = NoLoop /\ asker' = 0
      \/ runner' = "flow" /\ loop' = [loop EXCEPT !.at = "announce"] /\ asker' = asker
  BY <1>3, YieldEffect
<1>8. loop \in LoopRecord
  BY <1>1 DEF Typed
<1>9. CASE runner' = "between" /\ loop' = NoLoop /\ asker' = 0
  <2>1. Typed'
    BY <1>1, <1>3, <1>4, <1>5, <1>6, <1>9, SomeTypes, FlowConstants DEF Typed
  <2> QED BY <1>3, <1>9, <2>1, Interrupted DEF Control
<1>10. CASE runner' = "flow" /\ loop' = [loop EXCEPT !.at = "announce"] /\ asker' = asker
  <2>1. loop' \in LoopRecord /\ loop'.at = "announce" /\ loop'.op = "plan"
    BY <1>3, <1>8, <1>10 DEF LoopRecord, LoopAt
  <2>2. Typed'
    BY <1>1, <1>3, <1>4, <1>5, <1>6, <1>10, <2>1 DEF Typed
  <2>3. Places' /\ Passed'
    BY <1>1, <1>3, <1>4, <1>10, <2>1 DEF Places, Passed
  <2> QED BY <2>2, <2>3 DEF Control
<1> QED BY <1>7, <1>9, <1>10

LEMMA PlanAnnouncedControl == ASSUME Control, PlanAnnounced PROVE Control'
<1>1. Typed /\ Places /\ Passed
  BY DEF Control
<1>2. /\ runner = "flow" /\ loop.at = "announce"
      /\ recorded' = plan /\ unrecorded' = FALSE
      /\ status' \in {"completed", "executing"}
      /\ loop' = NoLoop /\ runner' \in {"flow", "between"} /\ asker' \in {0, asker}
      /\ UNCHANGED <<doc, inbox, sent, plan, step, ids, memory, finished, cut>>
  BY YieldEffect DEF PlanAnnounced, Looping
<1>3. asker' \in 0..MaxIds
  BY <1>1, <1>2, FlowConstants DEF Typed
<1>4. unrecorded' \in BOOLEAN
  BY <1>2
<1>5. status' \in FlowStatus
  BY <1>2 DEF FlowStatus
<1>6. Typed'
  BY <1>1, <1>2, <1>3, <1>4, <1>5, SomeTypes DEF Typed
<1>7. Places' /\ Passed'
  BY <1>1, <1>2, OffLoop DEF Places, Passed
<1> QED BY <1>6, <1>7 DEF Control

\* The end of a step: it is completed, and the planner is next.
LEMMA EndStepFrame ==
    ASSUME Control, EndStep
    PROVE  /\ loop.op = "step" /\ loop.at \in {"result", "failed"}
           /\ plan' = Mark(plan, step, "completed")
           /\ finished' = finished \cup {plan[step].id}
           /\ status' = "updating" /\ loop' = NoLoop /\ asker' = 0
           /\ runner' \in {"flow", "between"}
           /\ UNCHANGED <<doc, inbox, sent, recorded, step, ids, memory, unrecorded, cut>>
<1>1. /\ loop.op = "step" /\ loop.at \in {"result", "failed"} /\ runner = "flow"
      /\ plan' = [plan EXCEPT ![step] = StepEnded]
      /\ finished' = finished \cup {plan[step].id}
      /\ status' = "updating"
      /\ IF loop.at = "result" THEN Yield(NoLoop, 0)
         ELSE loop' = NoLoop /\ asker' = 0 /\ UNCHANGED runner
      /\ UNCHANGED <<doc, inbox, sent, recorded, step, ids, memory, unrecorded, cut>>
  BY DEF EndStep, Looping
<1>2. plan' = Mark(plan, step, "completed")
  BY <1>1 DEF StepEnded, Mark
<1>3. loop' = NoLoop /\ asker' = 0 /\ runner' \in {"flow", "between"}
  BY <1>1, YieldEffect
<1> QED BY <1>1, <1>2, <1>3

LEMMA EndStepControl == ASSUME Control, EndStep PROVE Control'
<1>1. Typed /\ Places /\ Passed
  BY DEF Control
<1>2. /\ step \in 1..Len(plan) /\ plan[step] \in Step /\ runner = "flow"
      /\ \A i \in 1..step - 1 : IsDone(plan[i])
  BY <1>1, EndStepFrame, AtStep DEF Passed
<1>3. /\ plan' \in Seq(Step) /\ Len(plan') = Len(plan)
      /\ plan'[step].status = "completed"
      /\ \A i \in 1..Len(plan) : i # step => plan'[i] = plan[i]
  <2>1. "completed" \in StepStatus /\ plan \in Seq(Step)
    BY <1>1 DEF StepStatus, Typed
  <2> QED BY <1>2, <2>1, EndStepFrame, Marked
<1>4. finished' \subseteq 1..MaxIds
  BY <1>1, <1>2, EndStepFrame DEF Typed, Step
<1>5. asker' \in 0..MaxIds
  BY EndStepFrame, FlowConstants
<1>6. Typed'
  BY <1>1, <1>3, <1>4, <1>5, EndStepFrame, SomeTypes DEF Typed, FlowStatus
<1>7. \A i \in 1..step : IsDone(plan'[i])
  <2> SUFFICES ASSUME NEW i \in 1..step PROVE IsDone(plan'[i])
    OBVIOUS
  <2>1. CASE i = step
    BY <1>3, <2>1 DEF IsDone
  <2>2. CASE i # step
    BY <1>2, <1>3, <2>2 DEF IsDone
  <2> QED BY <2>1, <2>2
<1>8. Places' /\ Passed'
  BY <1>1, <1>2, <1>7, EndStepFrame, OffLoop DEF Places, Passed
<1> QED BY <1>6, <1>8 DEF Control

\* The end of an update: with a plan that is recorded, or without one.
LEMMA EndUpdateFrame ==
    ASSUME Control, EndUpdate
    PROVE  /\ loop.op = "update" /\ runner = "flow" /\ status = "updating"
           /\ status' = "executing" /\ loop' = NoLoop
           /\ runner' \in {"flow", "between"} /\ asker' \in {0, asker}
           /\ UNCHANGED <<doc, inbox, sent, step, memory, finished, cut>>
           /\ \/ /\ unrecorded' = FALSE /\ recorded' = plan'
                 /\ \E n \in Nat : /\ ids + n <= MaxIds /\ ids' = ids + n
                                   /\ plan' = Updated(plan, NewSteps(n))
              \/ unrecorded' = TRUE /\ UNCHANGED <<plan, ids, recorded, runner>>
<1>1. CASE Looping("result")
  <2>1. /\ loop.op = "update" /\ runner = "flow" /\ Yield(NoLoop, asker)
        /\ unrecorded' = FALSE /\ status' = "executing"
        /\ UNCHANGED <<doc, inbox, sent, step, memory, finished, cut>>
    BY <1>1 DEF EndUpdate, Looping
  <2>2. PICK n \in 0..MaxSteps : /\ ids + n <= MaxIds /\ ids' = ids + n
                                 /\ plan' = Updated(plan, NewSteps(n))
                                 /\ recorded' = plan'
    BY <1>1 DEF EndUpdate, Looping, RecordedUpdate
  <2>3. n \in Nat
    BY <2>2, FlowConstants
  <2> QED BY <2>1, <2>2, <2>3, YieldEffect DEF Control, Places
<1>2. CASE Looping("failed")
  BY <1>2 DEF EndUpdate, Looping, Control, Places
<1> QED BY <1>1, <1>2 DEF EndUpdate

\* The step whose end is to be told of stays in the plan.
LEMMA EndUpdatePlan ==
    ASSUME Control, EndUpdate
    PROVE  /\ plan' \in Seq(Step) /\ recorded' \in Seq(Step)
           /\ step \in 0..Len(plan') /\ ids' \in 0..MaxIds
<1>1. Typed /\ Places /\ Passed
  BY DEF Control
<1>2. CASE UNCHANGED <<plan, ids, recorded>>
  BY <1>1, <1>2 DEF Typed
<1>3. CASE ~ UNCHANGED <<plan, ids, recorded>>
  <2>1. PICK n \in Nat : /\ ids + n <= MaxIds /\ ids' = ids + n
                         /\ plan' = Updated(plan, NewSteps(n)) /\ recorded' = plan'
    BY <1>3, EndUpdateFrame
  <2>2. plan \in Seq(Step) /\ ids \in Nat /\ step \in 0..Len(plan)
    BY <1>1 DEF Typed
  <2>3. NewSteps(n) \in Seq(Step) /\ Len(NewSteps(n)) = n
    BY <2>1, <2>2, NewOnes, FlowConstants
  <2>4. plan' \in Seq(Step)
    BY <2>1, <2>2, <2>3, UpdatedParts
  <2>5. step \in 0..Len(plan')
    <3>1. CASE Pending(plan) = {}
      BY <2>1, <2>2, <2>3, <3>1, UpdatedParts
    <3>2. CASE Pending(plan) # {}
      <4>1. NextStep(plan) \in 1..Len(plan) /\ ~ IsDone(plan[NextStep(plan)])
        BY <2>2, <3>2, NextIsFirst DEF Pending
      <4>2. \A i \in 1..step : IsDone(plan[i])
        BY <1>1, EndUpdateFrame DEF Passed
      <4>3. step < NextStep(plan)
        BY <2>2, <4>1, <4>2
      <4>4. Len(plan') = NextStep(plan) - 1 + n
        BY <2>1, <2>2, <2>3, <3>2, UpdatedParts
      <4> QED BY <2>1, <2>2, <4>1, <4>3, <4>4
    <3> QED BY <3>1, <3>2
  <2>6. ids' \in 0..MaxIds
    BY <2>1, <2>2, FlowConstants
  <2> QED BY <2>1, <2>4, <2>5, <2>6
<1> QED BY <1>2, <1>3

LEMMA EndUpdateControl == ASSUME Control, EndUpdate PROVE Control'
<1>1. Typed /\ Places /\ Passed
  BY DEF Control
<1>2. unrecorded' \in BOOLEAN
  BY EndUpdateFrame
<1>3. asker' \in 0..MaxIds
  BY <1>1, EndUpdateFrame, FlowConstants DEF Typed
<1>4. status' \in FlowStatus
  BY EndUpdateFrame DEF FlowStatus
<1>5. /\ loop' = NoLoop /\ runner' \in {"flow", "between"} /\ status' = "executing"
      /\ UNCHANGED <<doc, inbox, sent, step, memory, finished, cut>>
  BY EndUpdateFrame
<1>6. Typed'
  BY <1>1, <1>2, <1>3, <1>4, <1>5, EndUpdatePlan, SomeTypes DEF Typed
<1>7. Places' /\ Passed'
  BY <1>1, <1>5, EndUpdateFrame, OffLoop DEF Places, Passed
<1> QED BY <1>6, <1>7 DEF Control

LEMMA EndSummaryFrame ==
    ASSUME EndSummary
    PROVE  /\ loop.op = "summary" /\ runner = "flow"
           /\ status' = "completed" /\ loop' = NoLoop
           /\ runner' \in {"flow", "between"}
           /\ asker' \in {0, asker}
           /\ UNCHANGED <<doc, inbox, sent, plan, recorded, step, ids, memory,
                          finished, unrecorded, cut>>
<1>1. CASE loop.at = "result"
  BY <1>1, YieldEffect DEF EndSummary, Looping
<1>2. CASE loop.at # "result"
  BY <1>2 DEF EndSummary, Looping
<1> QED BY <1>1, <1>2

LEMMA EndSummaryControl == ASSUME Control, EndSummary PROVE Control'
<1>1. Typed /\ Places /\ Passed
  BY DEF Control
<1>2. asker' \in 0..MaxIds
  BY <1>1, EndSummaryFrame, FlowConstants DEF Typed
<1>3. Typed'
  BY <1>1, <1>2, EndSummaryFrame, SomeTypes DEF Typed, FlowStatus
<1>4. Places' /\ Passed'
  BY <1>1, EndSummaryFrame, OffLoop DEF Places, Passed
<1> QED BY <1>3, <1>4 DEF Control

LEMMA NextControl == Control /\ [FlowNext]_flowVars => Control'
<1> SUFFICES ASSUME Control, [FlowNext]_flowVars PROVE Control'
  OBVIOUS
<1>1. CASE GoneStep
  BY <1>1, GoneControl
<1>2. CASE Message
  BY <1>2, MessageControl
<1>3. CASE BeginFlow
  BY <1>3, BeginControl
<1>4. CASE StartPlanning \/ StartSummary \/ StartUpdate
  BY <1>4, StartControl
<1>5. CASE StartStep \/ Complete
  BY <1>5, StartStepControl, CompleteControl
<1>6. CASE Reply \/ HandleCall \/ EndOfCalls
  BY <1>6, ReplyControl, CallControl, EndOfCallsControl
<1>7. CASE PlanCreated \/ PlanAnnounced
  BY <1>7, PlanCreatedControl, PlanAnnouncedControl
<1>8. CASE EndStep \/ EndUpdate \/ EndSummary
  BY <1>8, EndStepControl, EndUpdateControl, EndSummaryControl
<1>9. CASE UNCHANGED flowVars
  BY <1>9 DEF flowVars, session, progress, history, Control, Typed, Places, Passed, IsDone
<1> QED BY <1>1, <1>2, <1>3, <1>4, <1>5, <1>6, <1>7, <1>8, <1>9
        DEF FlowNext, RunnerStep, FlowStep, LoopStep, GoneStep, HandleCall

\* Every variable keeps its type: the flow holds a step of its plan, its loop
\* keeps within its limits, and the memories hold calls (PlanActFlow.run,
\* BaseAgent.execute).
THEOREM FlowTypes == FlowSpec => []FlowTypeOK
<1>1. FlowInit => Control
  BY InitControl
<1>2. Control /\ [FlowNext]_flowVars => Control'
  BY NextControl
<1>3. Control => FlowTypeOK
  BY ControlTypes
<1> QED BY <1>1, <1>2, <1>3, PTL DEF FlowSpec

-----------------------------------------------------------------------------
(* The conversations sent to the model.                                    *)

\* A conversation is broken only if its agent was cut off; calls wait for their
\* results only in the loop that handles them, and while no flow runs.
Repaired ==
    /\ \A a \in Agents : memory[a].broken => a \in cut
    /\ \A a \in Agents : memory[a].open # <<>> =>
          /\ doc # "pending"
          /\ runner = "flow" => \/ a \in cut
                                \/ loop.at \in {"calls", "asking"} /\ a = Me

\* A step that leaves the memories alone, and does not start a flow.
LEMMA RepairedFrame ==
    ASSUME Control, Repaired, UNCHANGED <<memory, cut>>,
           doc' = "pending" => doc = "pending",
           runner' = "flow" => runner = "flow",
           runner' = "flow" /\ loop.at \in {"calls", "asking"} =>
              loop'.at \in {"calls", "asking"} /\ loop'.op = loop.op
    PROVE  Repaired'
BY DEF Repaired, Me

LEMMA RequestRepaired ==
    ASSUME Control, Repaired, runner = "flow", loop.at = "off",
           NEW op \in Operation, Request(op), UNCHANGED <<doc, cut>>
    PROVE  Repaired'
<1> DEFINE b == AgentOf(op)
<1>1. /\ \A a \in Agents : a # b => memory'[a] = memory[a]
      /\ b \in Agents /\ memory'[b].open = <<>>
      /\ memory'[b].broken => memory[b].broken \/ memory[b].open # <<>>
  BY RequestMemory DEF Control
<1>2. \A a \in Agents : memory[a].open # <<>> => a \in cut /\ doc # "pending"
  BY DEF Repaired
<1> HIDE DEF b
<1>3. \A a \in Agents : memory'[a].broken => a \in cut'
  BY <1>1, <1>2 DEF Repaired
<1>4. \A a \in Agents : memory'[a].open # <<>> => a \in cut' /\ doc' # "pending"
  BY <1>1, <1>2
<1> QED BY <1>3, <1>4 DEF Repaired

LEMMA ReplyRepaired == ASSUME Control, Repaired, Reply PROVE Repaired'
<1>1. PICK calls \in Seq(Call) :
         /\ Remember(AddReply(memory[Me], calls))
         /\ loop.at = "ask" /\ runner = "flow" /\ doc' = doc
         /\ \/ /\ cut' = IF calls = <<>> THEN cut ELSE cut \cup {Me}
            \/ calls = <<>> /\ cut' = cut
            \/ /\ loop' = [loop EXCEPT !.at = "calls", !.call = 1, !.streak = 0,
                                       !.output = FALSE]
               /\ UNCHANGED <<runner, cut>>
  BY ReplyFrame
<1>2. /\ \A a \in Agents : a # Me => memory'[a] = memory[a]
      /\ Me \in Agents /\ memory'[Me].open = calls
      /\ memory'[Me].broken => memory[Me].broken \/ memory[Me].open # <<>>
  BY <1>1, ReplyMemory, SomeTypes DEF Control
<1>3. /\ \A a \in Agents : memory[a].open # <<>> => a \in cut
      /\ cut \subseteq cut'
  BY <1>1 DEF Repaired
<1>4. doc' # "pending"
  BY <1>1 DEF Control, Places
<1>5. \A a \in Agents : memory'[a].broken => a \in cut'
  BY <1>2, <1>3 DEF Repaired
<1>6. calls = <<>> \/ Me \in cut' \/ (loop'.at = "calls" /\ loop'.op = loop.op)
  <2>1. loop \in LoopRecord
    BY DEF Control, Typed
  <2>2. CASE loop' = [loop EXCEPT !.at = "calls", !.call = 1, !.streak = 0, !.output = FALSE]
    BY <2>1, <2>2 DEF LoopRecord
  <2> QED BY <1>1, <2>2
<1>7. \A a \in Agents : memory'[a].open # <<>> =>
         a \in cut' \/ (loop'.at = "calls" /\ a = Me /\ loop'.op = loop.op)
  BY <1>2, <1>3, <1>6
<1> QED BY <1>4, <1>5, <1>7 DEF Repaired, Me

LEMMA NextRepaired == Control /\ Repaired /\ [FlowNext]_flowVars => Repaired'
<1> SUFFICES ASSUME Control, Repaired, [FlowNext]_flowVars PROVE Repaired'
  OBVIOUS
<1>0. Typed /\ Places
  BY DEF Control
<1>1. CASE GoneStep
  BY <1>1, GoneFrame, RepairedFrame DEF Gone
<1>2. CASE Message
  <2>1. /\ UNCHANGED <<memory, cut, doc, loop>>
        /\ runner' = "flow" => runner = "flow"
    BY <1>2 DEF Message
  <2> QED BY <2>1, RepairedFrame
<1>3. CASE BeginFlow
  <2>1. /\ cut \subseteq cut' /\ doc' = "running"
        /\ \/ doc = "pending" /\ memory' = memory
           \/ \A a \in Agents : /\ memory'[a].open = <<>>
                                /\ memory'[a].broken => memory[a].broken \/ a \in cut'
    BY <1>0, <1>3, BeginMemory DEF BeginFlow
  <2>2. CASE doc = "pending" /\ memory' = memory
    BY <2>1, <2>2 DEF Repaired
  <2>3. CASE \A a \in Agents : /\ memory'[a].open = <<>>
                               /\ memory'[a].broken => memory[a].broken \/ a \in cut'
    BY <2>1, <2>3 DEF Repaired
  <2> QED BY <2>1, <2>2, <2>3
<1>4. CASE StartPlanning \/ StartSummary \/ StartUpdate
  <2>1. /\ runner = "flow" /\ loop.at = "off" /\ UNCHANGED <<doc, cut>>
        /\ Request("plan") \/ Request("summary") \/ Request("update")
    BY <1>4 DEF StartPlanning, StartSummary, StartUpdate, Idle, session
  <2> QED BY <2>1, RequestRepaired DEF Operation
<1>5. CASE StartStep
  <2>1. runner = "flow" /\ loop.at = "off" /\ UNCHANGED <<doc, cut>>
    BY <1>5 DEF StartStep, Idle
  <2>2. CASE inbox > 0
    BY <1>5, <2>1, <2>2, RepairedFrame DEF StartStep, Yield
  <2>3. CASE ~ (inbox > 0)
    BY <1>5, <2>1, <2>3, RequestRepaired DEF StartStep, Operation
  <2> QED BY <2>2, <2>3
<1>6. CASE Complete
  BY <1>6, RepairedFrame DEF Complete
<1>7. CASE Reply
  BY <1>7, ReplyRepaired
<1>8. CASE HandleCall
  BY <1>8, CallFrame, RepairedFrame
<1>9. CASE EndOfCalls
  <2>1. /\ UNCHANGED <<doc, runner, cut>> /\ runner = "flow" /\ loop.at = "calls"
        /\ Me \in Agents
    BY <1>9, SomeTypes DEF EndOfCalls, Looping, session
  <2>2. /\ memory'[Me].open = <<>> /\ memory'[Me].broken = memory[Me].broken
        /\ \A a \in Agents : a # Me => memory'[a] = memory[a]
    BY <1>9, EndOfCallsControl
  <2>3. \A a \in Agents : memory'[a].broken => a \in cut'
    BY <2>1, <2>2 DEF Repaired
  <2>4. \A a \in Agents : memory'[a].open # <<>> => a \in cut' /\ doc' # "pending"
    BY <2>1, <2>2 DEF Repaired
  <2> QED BY <2>3, <2>4 DEF Repaired
<1>10. CASE PlanCreated \/ PlanAnnounced
  <2>1. /\ UNCHANGED <<memory, cut, doc>> /\ runner = "flow"
        /\ loop.at \in {"result", "announce"}
    BY <1>10 DEF PlanCreated, PlanAnnounced, Looping
  <2> QED BY <2>1, RepairedFrame
<1>11. CASE EndStep
  BY <1>0, <1>11, EndStepFrame, AtStep, RepairedFrame
<1>12. CASE EndUpdate \/ EndSummary
  <2>1. /\ UNCHANGED <<memory, cut, doc>> /\ runner = "flow"
        /\ loop.at \in {"result", "failed"}
    BY <1>12 DEF EndUpdate, EndSummary, Looping
  <2> QED BY <2>1, RepairedFrame
<1>13. CASE UNCHANGED flowVars
  BY <1>13, RepairedFrame DEF flowVars, session, progress, history
<1> QED BY <1>1, <1>2, <1>3, <1>4, <1>5, <1>6, <1>7, <1>8, <1>9, <1>10, <1>11, <1>12, <1>13
        DEF FlowNext, RunnerStep, FlowStep, LoopStep, GoneStep, HandleCall

LEMMA ControlInvariant == FlowSpec => []Control
<1>1. FlowInit => Control
  BY InitControl
<1> QED BY <1>1, NextControl, PTL DEF FlowSpec

\* The model is sent a conversation with an unanswered call only by an agent
\* whose loop was cut off by its iteration limit, or whose question to the user
\* came first of several calls: wherever a run was abandoned, stopped or killed,
\* the roll-back at the start of the next one repairs both memories
\* (BaseAgent.roll_back, execute, ask_with_messages).
THEOREM RepairedConversations == FlowSpec => []BrokenOnlyIfCut
<1>1. FlowInit => Repaired
  BY DEF FlowInit, Repaired
<1>2. Control /\ Repaired /\ [FlowNext]_flowVars => Repaired'
  BY NextRepaired
<1>3. Repaired => BrokenOnlyIfCut
  BY SomeTypes DEF Repaired, BrokenOnlyIfCut
<1> QED BY <1>1, <1>2, <1>3, ControlInvariant, PTL DEF FlowSpec

-----------------------------------------------------------------------------
(* The steps of the plan, and those that have been executed.               *)

\* The ids of a plan are of those given out, each once, and a step that is
\* completed has ended.
Well(p, top, ended) ==
    /\ \A i \in 1..Len(p) : p[i].id <= top
    /\ \A i, j \in 1..Len(p) : p[i].id = p[j].id => i = j
    /\ \A i \in 1..Len(p) : p[i].status = "completed" => p[i].id \in ended

Clean(s) == s.status \in {"pending", "completed"}
AllCompleted(p) == \A i \in 1..Len(p) : p[i].status = "completed"

StepsInv ==
    /\ finished \subseteq 1..ids
    /\ Well(plan, ids, finished) /\ Well(recorded, ids, finished)
    /\ \A i \in 1..Len(recorded) : Clean(recorded[i])
    /\ runner = "flow" =>
          /\ \A i \in 1..Len(plan) : Clean(plan[i]) \/ (loop.op = "step" /\ i = step)
          /\ loop.op = "step" => plan[step].status \in {"running", "failed"}
          /\ status \in {"summarizing", "completed"} => AllCompleted(plan)

LEMMA WellKept ==
    ASSUME NEW p \in Seq(Step), NEW q \in Seq(Step), Len(q) = Len(p),
           NEW top, NEW ended, NEW more, Well(p, top, ended), ended \subseteq more,
           \A i \in 1..Len(p) :
              /\ q[i].id = p[i].id
              /\ q[i].status = "completed" => p[i].status = "completed" \/ p[i].id \in more
    PROVE  Well(q, top, more)
BY DEF Well

LEMMA WellNew ==
    ASSUME Typed, StepsInv, NEW n \in Nat, ids + n <= MaxIds
    PROVE  /\ Well(NewSteps(n), ids + n, finished)
           /\ \A i \in 1..Len(NewSteps(n)) : /\ NewSteps(n)[i].id \notin finished
                                             /\ NewSteps(n)[i].status = "pending"
<1>1. ids \in Nat /\ finished \subseteq 1..ids
  BY DEF Typed, StepsInv
<1>2. /\ Len(NewSteps(n)) = n
      /\ \A i \in 1..n : /\ NewSteps(n)[i].id = ids + i
                         /\ NewSteps(n)[i].status = "pending"
  BY <1>1, NewOnes, FlowConstants
<1>3. \A i \in 1..n : ids + i \notin finished
  BY <1>1
<1>4. \A i, j \in 1..n : ids + i = ids + j => i = j
  BY <1>1
<1>5. \A i \in 1..n : ids + i <= ids + n
  BY <1>1
<1> QED BY <1>2, <1>3, <1>4, <1>5 DEF Well

\* The steps of an updated plan: those that were done, and new ones.
LEMMA WellUpdated ==
    ASSUME Typed, StepsInv, NEW n \in Nat, ids + n <= MaxIds,
           \A i \in 1..Len(plan) : Clean(plan[i]),
           NEW q, q = Updated(plan, NewSteps(n))
    PROVE  /\ q \in Seq(Step) /\ Well(q, ids + n, finished)
           /\ \A i \in 1..Len(q) : Clean(q[i])
           /\ \A i \in 1..Len(q) : q[i].status # "completed" => q[i].id \notin finished
<1> DEFINE new == NewSteps(n)
<1>1. ids \in Nat /\ plan \in Seq(Step) /\ Well(plan, ids, finished)
  BY DEF Typed, StepsInv
<1>2. new \in Seq(Step) /\ Len(new) = n /\ Well(new, ids + n, finished)
      /\ \A i \in 1..n : new[i].id = ids + i /\ new[i].id \notin finished
                         /\ new[i].status = "pending"
  BY <1>1, NewOnes, WellNew, FlowConstants
<1>3. q \in Seq(Step)
  BY <1>1, <1>2, UpdatedParts
<1>4. CASE Pending(plan) = {}
  <2>1. q = plan
    BY <1>1, <1>2, <1>4, UpdatedParts
  <2>2. AllCompleted(plan)
    BY <1>4 DEF AllCompleted, Pending, IsDone, Clean
  <2>3. Well(plan, ids + n, finished)
    <3>1. \A i \in 1..Len(plan) : plan[i] \in Step
      BY <1>1, ElementOfSeq
    <3>2. \A i \in 1..Len(plan) : plan[i].id \in Nat
      BY <3>1, FlowConstants DEF Step
    <3> QED BY <1>1, <3>2 DEF Well
  <2> QED BY <1>3, <2>1, <2>2, <2>3 DEF AllCompleted, Clean
<1>5. CASE Pending(plan) # {}
  <2>1. PICK k \in 0..Len(plan) : k = NextStep(plan) - 1
    BY <1>1, <1>2, <1>5, UpdatedParts
  <2>2. /\ Len(q) = k + n
        /\ \A i \in 1..k : q[i] = plan[i] /\ IsDone(plan[i])
        /\ \A i \in k + 1..Len(q) : q[i] = new[i - k]
    <3>1. /\ Len(q) = NextStep(plan) - 1 + Len(new)
          /\ \A i \in 1..NextStep(plan) - 1 : q[i] = plan[i] /\ IsDone(plan[i])
          /\ \A i \in NextStep(plan)..Len(q) : q[i] = new[i - (NextStep(plan) - 1)]
      BY <1>1, <1>2, <1>5, UpdatedParts
    <3>2. NextStep(plan) = k + 1 /\ NextStep(plan) - 1 = k /\ Len(new) = n
      BY <1>1, <1>2, <1>5, <2>1, UpdatedParts
    <3> HIDE DEF new
    <3> QED BY <3>1, <3>2
  <2>3. \A i \in 1..k : q[i].status = "completed" /\ q[i].id <= ids
                        /\ q[i].id = plan[i].id /\ q[i].id \in finished
    <3>1. \A i \in 1..k : i \in 1..Len(plan)
      BY <1>1, <2>1
    <3>2. \A i \in 1..k : plan[i].status = "completed"
      BY <2>2, <3>1 DEF Clean, IsDone
    <3> QED BY <1>1, <2>2, <3>1, <3>2 DEF Well
  <2>4. \A i \in k + 1..Len(q) : /\ i - k \in 1..n
                                 /\ q[i].status = "pending" /\ q[i].id = ids + (i - k)
                                 /\ q[i].id \notin finished
    <3>1. \A i \in k + 1..Len(q) : i - k \in 1..n
      BY <1>2, <2>1, <2>2
    <3> QED BY <1>2, <2>2, <3>1
  <2>5. \A i \in 1..Len(q) : i \in 1..k \/ i \in k + 1..Len(q)
    BY <2>1
  <2>6. \A i \in 1..Len(q) : Clean(q[i]) /\ (q[i].status # "completed" => q[i].id \notin finished)
    BY <2>3, <2>4, <2>5 DEF Clean
  <2>7. Well(q, ids + n, finished)
    <3>1. \A i \in 1..Len(q) : q[i].id <= ids + n
      <4> SUFFICES ASSUME NEW i \in 1..Len(q) PROVE q[i].id <= ids + n
        OBVIOUS
      <4>1. CASE i \in 1..k
        <5>1. i \in 1..Len(plan)
          BY <2>1, <4>1
        <5>2. plan[i] \in Step
          BY <1>1, <5>1, ElementOfSeq
        <5>3. plan[i].id \in Nat
          BY <5>2, FlowConstants DEF Step
        <5> QED BY <1>1, <2>3, <4>1, <5>3
      <4>2. CASE i \in k + 1..Len(q)
        BY <1>1, <2>4, <4>2
      <4> QED BY <2>5, <4>1, <4>2
    <3>2. \A i, j \in 1..Len(q) : q[i].id = q[j].id => i = j
      <4> SUFFICES ASSUME NEW i \in 1..Len(q), NEW j \in 1..Len(q), q[i].id = q[j].id
                   PROVE  i = j
        OBVIOUS
      <4>1. CASE i \in 1..k /\ j \in 1..k
        <5>1. i \in 1..Len(plan) /\ j \in 1..Len(plan)
          BY <1>1, <2>1, <4>1
        <5> QED BY <1>1, <2>3, <4>1, <5>1 DEF Well
      <4>2. CASE i \in k + 1..Len(q) /\ j \in k + 1..Len(q)
        <5>1. ids + (i - k) = ids + (j - k)
          BY <2>4, <4>2
        <5> QED BY <1>1, <2>1, <4>2, <5>1, SMTT(60)
      <4>3. CASE \/ i \in 1..k /\ j \in k + 1..Len(q)
                 \/ j \in 1..k /\ i \in k + 1..Len(q)
        BY <2>3, <2>4, <4>3
      <4> QED BY <2>5, <4>1, <4>2, <4>3
    <3>3. \A i \in 1..Len(q) : q[i].status = "completed" => q[i].id \in finished
      BY <2>3, <2>4, <2>5
    <3> QED BY <3>1, <3>2, <3>3 DEF Well
  <2> QED BY <1>3, <2>6, <2>7
<1> QED BY <1>4, <1>5

\* A step that leaves the plans and what has ended alone, but for a step that
\* fails.
LEMMA StepsFrame ==
    ASSUME Control, StepsInv, UNCHANGED <<recorded, ids, finished>>,
           plan' = plan \/ plan' = StepFails,
           runner' = "flow" =>
              /\ runner = "flow" /\ step' = step
              /\ loop'.op = "step" <=> loop.op = "step"
              /\ status' \in {"summarizing", "completed"} =>
                    AllCompleted(plan) /\ loop.op # "step"
    PROVE  StepsInv'
<1>1. /\ plan \in Seq(Step) /\ plan' \in Seq(Step) /\ Len(plan') = Len(plan)
      /\ \A i \in 1..Len(plan) : /\ plan'[i].id = plan[i].id
                                 /\ plan'[i] = plan[i] \/ (loop.op = "step" /\ i = step)
      /\ loop.op = "step" => plan'[step].status \in {plan[step].status, "failed"}
  BY FailedPlan DEF Control, Typed
<1>2. \A i \in 1..Len(plan) : plan'[i].status = "completed" => plan[i].status = "completed"
  BY <1>1
<1>3. Well(plan', ids', finished') /\ Well(recorded', ids', finished')
  BY <1>1, <1>2, WellKept DEF StepsInv
<1>4. ASSUME runner' = "flow"
      PROVE  /\ \A i \in 1..Len(plan') : Clean(plan'[i]) \/ (loop'.op = "step" /\ i = step')
             /\ loop'.op = "step" => plan'[step'].status \in {"running", "failed"}
             /\ status' \in {"summarizing", "completed"} => AllCompleted(plan')
  <2>1. \A i \in 1..Len(plan) : Clean(plan[i]) \/ (loop.op = "step" /\ i = step)
    BY <1>4 DEF StepsInv
  <2>2. \A i \in 1..Len(plan) : Clean(plan'[i]) \/ (loop.op = "step" /\ i = step)
    BY <1>1, <2>1 DEF Clean
  <2>3. loop'.op = "step" => plan'[step'].status \in {"running", "failed"}
    BY <1>1, <1>4 DEF StepsInv
  <2>4. status' \in {"summarizing", "completed"} => AllCompleted(plan')
    BY <1>1, <1>4 DEF AllCompleted
  <2> QED BY <1>1, <1>4, <2>2, <2>3, <2>4
<1> QED BY <1>3, <1>4 DEF StepsInv, Clean

LEMMA InitSteps == FlowInit => StepsInv
BY DEF FlowInit, StepsInv, Well

LEMMA EndStepSteps == ASSUME Control, StepsInv, EndStep PROVE StepsInv'
<1>0. step \in 1..Len(plan) /\ plan[step] \in Step /\ runner = "flow" /\ plan \in Seq(Step)
  BY EndStepFrame, AtStep DEF Control, Typed
<1>1. /\ plan' \in Seq(Step) /\ Len(plan') = Len(plan)
      /\ plan'[step].status = "completed"
      /\ \A i \in 1..Len(plan) : i # step => plan'[i] = plan[i]
      /\ \A i \in 1..Len(plan) : plan'[i].id = plan[i].id
  <2>1. "completed" \in StepStatus
    BY DEF StepStatus
  <2> QED BY <1>0, <2>1, EndStepFrame, Marked
<1>2. /\ finished' = finished \cup {plan[step].id}
      /\ status' = "updating" /\ loop' = NoLoop
      /\ UNCHANGED <<recorded, step, ids>>
  BY EndStepFrame
<1>3. finished' \subseteq 1..ids
  <2>1. plan[step].id \in 1..MaxIds /\ plan[step].id <= ids
    BY <1>0 DEF Step, StepsInv, Well
  <2>2. ids \in Nat
    BY DEF Control, Typed
  <2>3. plan[step].id \in 1..ids
    BY <2>1, <2>2, FlowConstants
  <2> QED BY <1>2, <2>3 DEF StepsInv
<1>4. Well(plan', ids', finished')
  <2>1. \A i \in 1..Len(plan) :
           plan'[i].status = "completed" => plan[i].status = "completed" \/ plan[i].id \in finished'
    BY <1>1, <1>2
  <2> QED BY <1>0, <1>1, <1>2, <2>1, WellKept DEF StepsInv
<1>5. Well(recorded', ids', finished')
  BY <1>2 DEF StepsInv, Well
<1>6. \A i \in 1..Len(plan') : Clean(plan'[i])
  BY <1>0, <1>1, EndStepFrame DEF StepsInv, Clean
<1>7. \A i \in 1..Len(recorded') : Clean(recorded'[i])
  BY <1>2 DEF StepsInv
<1> QED BY <1>2, <1>3, <1>4, <1>5, <1>6, <1>7, OffLoop DEF StepsInv, Clean

LEMMA NextSteps == Control /\ StepsInv /\ [FlowNext]_flowVars => StepsInv'
<1> SUFFICES ASSUME Control, StepsInv, [FlowNext]_flowVars PROVE StepsInv'
  OBVIOUS
<1>0. Typed /\ Places /\ plan \in Seq(Step) /\ recorded \in Seq(Step) /\ ids \in Nat
  BY DEF Control, Typed
<1>1. CASE GoneStep
  <2>1. /\ runner' = "none" /\ plan' = <<>> /\ UNCHANGED <<recorded, ids, finished>>
    BY <1>1, GoneFrame DEF Gone
  <2>2. Well(plan', ids', finished')
    BY <2>1 DEF Well
  <2> QED BY <2>1, <2>2 DEF StepsInv
<1>2. CASE Message
  <2>1. /\ UNCHANGED <<status, plan, recorded, step, ids, loop, finished>>
        /\ runner' = "flow" => runner = "flow"
    BY <1>2 DEF Message, progress, history
  <2> QED BY <1>0, <2>1, StepsFrame, OffLoop DEF StepsInv, Places
<1>3. CASE BeginFlow
  <2>1. /\ plan' = recorded /\ runner = "between" /\ status' = Resumed(doc)
        /\ UNCHANGED <<recorded, ids, finished, loop>>
    BY <1>3 DEF BeginFlow, history
  <2>2. loop.op # "step"
    BY <1>0, <2>1, OffLoop DEF Places
  <2>3. status' \notin {"summarizing", "completed"}
    BY <1>0, <2>1 DEF Resumed, Places, Typed
  <2> QED BY <2>1, <2>2, <2>3 DEF StepsInv
<1>4. CASE StartPlanning \/ StartUpdate
  <2>1. /\ UNCHANGED <<runner, plan, recorded, step, ids, finished>>
        /\ loop.at = "off" /\ status' \notin {"summarizing", "completed"}
        /\ \E op \in {"plan", "update"} : loop' = Asking(op)
    BY <1>4 DEF StartPlanning, StartUpdate, Idle, session, progress, history
  <2>2. loop'.op # "step" /\ loop.op # "step"
    BY <1>0, <2>1, AskingType, OffLoop DEF Operation, Places
  <2> QED BY <2>1, <2>2, StepsFrame
<1>5. CASE StartSummary
  <2>1. /\ UNCHANGED <<runner, plan, recorded, step, ids, finished>>
        /\ loop.at = "off" /\ runner = "flow" /\ loop' = Asking("summary")
        /\ status = "summarizing" \/ NextStep(plan) = 0
    BY <1>5 DEF StartSummary, Idle, session, history
  <2>2. loop'.op # "step" /\ loop.op # "step"
    BY <1>0, <2>1, AskingType, OffLoop DEF Operation, Places
  <2>3. AllCompleted(plan)
    <3>1. CASE status = "summarizing"
      BY <2>1, <3>1 DEF StepsInv
    <3>2. CASE NextStep(plan) = 0
      <4>1. Pending(plan) = {}
        BY <1>0, <3>2, NextIsFirst
      <4>2. \A i \in 1..Len(plan) : Clean(plan[i])
        BY <2>1, <2>2 DEF StepsInv
      <4> QED BY <4>1, <4>2 DEF Pending, IsDone, Clean, AllCompleted
    <3> QED BY <2>1, <3>1, <3>2
  <2> QED BY <2>1, <2>2, <2>3, StepsFrame
<1>6. CASE StartStep
  <2>1. /\ runner = "flow" /\ loop.at = "off" /\ status' = "executing"
        /\ step' = NextStep(plan) /\ NextStep(plan) # 0
        /\ plan' = [plan EXCEPT ![NextStep(plan)].status = "running"]
        /\ UNCHANGED <<recorded, ids, finished>>
        /\ runner' = "between" \/ loop' = Asking("step")
    BY <1>6, YieldEffect DEF StartStep, Idle
  <2>2. NextStep(plan) \in 1..Len(plan) /\ "running" \in StepStatus
    BY <1>0, <2>1, NextIsFirst DEF StepStatus
  <2>3. plan' = Mark(plan, NextStep(plan), "running")
    BY <1>0, <2>1, <2>2, Marked
  <2>4. /\ plan' \in Seq(Step) /\ Len(plan') = Len(plan)
        /\ plan'[NextStep(plan)].status = "running"
        /\ \A i \in 1..Len(plan) : i # NextStep(plan) => plan'[i] = plan[i]
        /\ \A i \in 1..Len(plan) : plan'[i].id = plan[i].id
    BY <1>0, <2>2, <2>3, Marked
  <2>5. Well(plan', ids', finished')
    <3>1. \A i \in 1..Len(plan) : plan'[i].status = "completed" => plan[i].status = "completed"
      BY <2>4
    <3>2. Well(plan, ids, finished) /\ finished \subseteq finished
      BY DEF StepsInv
    <3>3. Well(plan', ids, finished)
      BY <1>0, <2>4, <3>1, <3>2, WellKept
    <3> QED BY <2>1, <3>3
  <2>6. \A i \in 1..Len(plan') : Clean(plan'[i]) \/ i = step'
    <3>1. loop.op # "step"
      BY <1>0, <2>1, OffLoop DEF Places
    <3> QED BY <2>1, <2>4, <3>1 DEF StepsInv, Clean
  <2>7. loop' = Asking("step") => loop'.op = "step"
    BY AskingType DEF Operation
  <2> QED BY <2>1, <2>4, <2>5, <2>6, <2>7 DEF StepsInv, Clean
<1>7. CASE Complete
  <2>1. /\ recorded' = plan /\ runner' = "between" /\ runner = "flow"
        /\ UNCHANGED <<plan, ids, finished>> /\ status = "completed"
    BY <1>7 DEF Complete, Idle
  <2>2. \A i \in 1..Len(plan) : Clean(plan[i])
    BY <2>1 DEF StepsInv, AllCompleted, Clean
  <2> QED BY <2>1, <2>2 DEF StepsInv, Clean
<1>8. CASE Reply
  <2>1. loop \in LoopRecord
    BY <1>0 DEF Typed
  <2>2. /\ runner = "flow" /\ UNCHANGED <<recorded, ids, finished, step, status>>
        /\ plan' = plan \/ plan' = StepFails
        /\ \/ runner' = "between"
           \/ loop' = [loop EXCEPT !.at = "failed"]
           \/ loop' = [loop EXCEPT !.streak = loop.streak + 1, !.turns = loop.turns + 1]
           \/ loop' = [loop EXCEPT !.at = "calls", !.call = 1, !.streak = 0, !.output = FALSE]
    BY <1>8, ReplyFrame
  <2>3. runner' = "flow" => loop'.op = loop.op
    BY <2>1, <2>2 DEF LoopRecord
  <2>4. status \in {"summarizing", "completed"} => AllCompleted(plan) /\ loop.op # "step"
    BY <1>0, <2>2 DEF StepsInv, Places
  <2> QED BY <2>2, <2>3, <2>4, StepsFrame
<1>9. CASE HandleCall
  <2>1. status \in {"summarizing", "completed"} => AllCompleted(plan) /\ loop.op # "step"
    BY <1>0, <1>9, CallFrame DEF StepsInv, Places
  <2> QED BY <1>9, <2>1, CallFrame, StepsFrame
<1>10. CASE EndOfCalls
  <2>1. /\ UNCHANGED <<runner, status, plan, recorded, step, ids, finished>>
        /\ runner = "flow" /\ loop'.op = loop.op
    BY <1>10, EndOfCallsControl DEF EndOfCalls, Looping, session, progress, history
  <2>2. status \in {"summarizing", "completed"} => AllCompleted(plan) /\ loop.op # "step"
    BY <1>0, <2>1 DEF StepsInv, Places
  <2> QED BY <2>1, <2>2, StepsFrame
<1>11. CASE PlanCreated
  <2>1. PICK n \in 0..MaxSteps :
           ids + n <= MaxIds /\ plan' = NewSteps(n) /\ ids' = ids + n
    BY <1>11 DEF PlanCreated
  <2>2. /\ UNCHANGED <<recorded, finished, status>> /\ status = "planning"
        /\ loop.op = "plan"
        /\ runner' = "between" \/ loop' = [loop EXCEPT !.at = "announce"]
    BY <1>11, YieldEffect DEF PlanCreated, Looping
  <2>3. n \in Nat
    BY <2>1, FlowConstants
  <2>4. /\ Well(plan', ids', finished')
        /\ \A i \in 1..Len(plan') : Clean(plan'[i])
    BY <1>0, <2>1, <2>2, <2>3, WellNew DEF Clean
  <2>5. Well(recorded', ids', finished')
    <3>1. \A i \in 1..Len(recorded) : recorded[i] \in Step
      BY <1>0, ElementOfSeq
    <3>2. \A i \in 1..Len(recorded) : recorded[i].id \in Nat
      BY <3>1, FlowConstants DEF Step
    <3> QED BY <1>0, <2>1, <2>2, <2>3, <3>2 DEF StepsInv, Well
  <2>6. finished' \subseteq 1..ids'
    BY <1>0, <2>1, <2>2, <2>3 DEF StepsInv
  <2>7. \A i \in 1..Len(recorded') : Clean(recorded'[i])
    BY <2>2 DEF StepsInv
  <2>8. runner' = "flow" => loop'.op # "step"
    BY <1>0, <2>2 DEF Typed, LoopRecord
  <2> QED BY <2>2, <2>4, <2>5, <2>6, <2>7, <2>8 DEF StepsInv, Clean
<1>12. CASE PlanAnnounced
  <2>1. /\ recorded' = plan /\ UNCHANGED <<plan, ids, finished>> /\ runner = "flow"
        /\ loop.at = "announce" /\ loop' = NoLoop
        /\ status' = IF plan = <<>> THEN "completed" ELSE "executing"
    BY <1>12, YieldEffect DEF PlanAnnounced, Looping
  <2>2. \A i \in 1..Len(plan) : Clean(plan[i])
    BY <1>0, <2>1 DEF StepsInv, Places
  <2>3. status' \in {"summarizing", "completed"} => AllCompleted(plan)
    BY <2>1 DEF AllCompleted
  <2> QED BY <2>1, <2>2, <2>3, OffLoop DEF StepsInv, Clean, AllCompleted
<1>13. CASE EndStep
  BY <1>13, EndStepSteps
<1>14. CASE EndUpdate
  <2>1. CASE UNCHANGED <<plan, ids, recorded>>
    BY <1>14, <2>1, EndUpdateFrame, OffLoop, StepsFrame
  <2>2. CASE ~ UNCHANGED <<plan, ids, recorded>>
    <3>1. PICK n \in Nat : /\ ids + n <= MaxIds /\ ids' = ids + n
                           /\ plan' = Updated(plan, NewSteps(n)) /\ recorded' = plan'
      BY <1>14, <2>2, EndUpdateFrame
    <3>2. \A i \in 1..Len(plan) : Clean(plan[i])
      BY <1>14, EndUpdateFrame DEF StepsInv
    <3>3. /\ Well(plan', ids', finished)
          /\ \A i \in 1..Len(plan') : Clean(plan'[i])
      BY <1>0, <3>1, <3>2, WellUpdated
    <3>4. finished \subseteq 1..ids'
      BY <1>0, <3>1 DEF StepsInv
    <3>5. finished' = finished /\ status' = "executing" /\ loop' = NoLoop
      BY <1>14, EndUpdateFrame
    <3> QED BY <3>1, <3>3, <3>4, <3>5, OffLoop DEF StepsInv, Clean
  <2> QED BY <2>1, <2>2
<1>15. CASE EndSummary
  <2>1. AllCompleted(plan)
    BY <1>0, <1>15, EndSummaryFrame DEF StepsInv, Places
  <2> QED BY <1>15, <2>1, EndSummaryFrame, OffLoop, StepsFrame
<1>16. CASE UNCHANGED flowVars
  <2>1. UNCHANGED <<runner, status, plan, recorded, step, ids, loop, finished>>
    BY <1>16 DEF flowVars, session, progress, history
  <2> QED BY <1>0, <2>1, StepsFrame, OffLoop DEF StepsInv, Places
<1> QED BY <1>1, <1>2, <1>3, <1>4, <1>5, <1>6, <1>7, <1>8, <1>9, <1>10, <1>11, <1>12,
           <1>13, <1>14, <1>15, <1>16
        DEF FlowNext, RunnerStep, FlowStep, LoopStep, GoneStep, HandleCall

\* The flow sums up, and records its plan as completed, only when every step of
\* the plan recorded last has been executed to its end, in this run or in one
\* that waited for the user (PlanActFlow.run).
THEOREM SummaryLast == FlowSpec => []SummaryComesLast
<1>1. Control /\ StepsInv => SummaryComesLast
  <2> SUFFICES ASSUME Control, StepsInv, runner = "flow",
                      loop.op = "summary" \/ status = "completed",
                      NEW i \in DOMAIN plan
               PROVE  plan[i].status = "completed" /\ plan[i].id \in finished
    BY DEF SummaryComesLast
  <2>1. AllCompleted(plan)
    BY DEF Control, Places, StepsInv
  <2>2. i \in 1..Len(plan)
    BY DEF Control, Typed
  <2> QED BY <2>1, <2>2 DEF StepsInv, Well, AllCompleted
<1> QED BY <1>1, InitSteps, NextSteps, ControlInvariant, PTL DEF FlowSpec

-----------------------------------------------------------------------------
(* No step is executed a second time.                                      *)

AllFresh(p, ended) == \A i \in 1..Len(p) : p[i].status # "completed" => p[i].id \notin ended

\* The steps that are not completed have not ended: in the plan at work, and in
\* the one on record while a flow may be resumed from it.
FreshInv ==
    /\ doc = "waiting" => unrecorded \/ AllFresh(recorded, finished)
    /\ runner = "flow" /\ status \in {"executing", "updating"} =>
          unrecorded \/ AllFresh(plan, finished)
    /\ runner = "flow" /\ status = "executing" => unrecorded \/ AllFresh(recorded, finished)
    /\ loop.at = "announce" => AllFresh(plan, finished)

FlowInv == Control /\ StepsInv /\ FreshInv

\* A step of the loop, and what starts one: no step of the plan is added or
\* completed.
LEMMA FreshFrame ==
    ASSUME FlowInv, UNCHANGED <<doc, recorded, finished, unrecorded>>,
           Len(plan') = Len(plan),
           \A i \in 1..Len(plan) : /\ plan'[i].id = plan[i].id
                                   /\ plan'[i].status # "completed" =>
                                         plan[i].status # "completed",
           runner' = "flow" => runner = "flow",
           runner' = "flow" /\ status' \in {"executing", "updating"} => status' = status,
           loop'.at = "announce" => loop.at = "announce"
    PROVE  FreshInv'
<1>1. AllFresh(plan, finished) => AllFresh(plan', finished')
  BY DEF AllFresh
<1> QED BY <1>1 DEF FlowInv, FreshInv

LEMMA FailedFresh ==
    ASSUME FlowInv, plan' = plan \/ plan' = StepFails, runner = "flow"
    PROVE  /\ Len(plan') = Len(plan)
           /\ \A i \in 1..Len(plan) : /\ plan'[i].id = plan[i].id
                                      /\ plan'[i].status # "completed" =>
                                            plan[i].status # "completed"
<1>1. /\ Len(plan') = Len(plan)
      /\ \A i \in 1..Len(plan) : /\ plan'[i].id = plan[i].id
                                 /\ plan'[i] = plan[i] \/ (loop.op = "step" /\ i = step)
  BY FailedPlan DEF FlowInv
<1>2. loop.op = "step" => plan[step].status # "completed"
  BY DEF FlowInv, StepsInv
<1> QED BY <1>1, <1>2

LEMMA EndStepFresh == ASSUME FlowInv, EndStep PROVE FreshInv'
<1>0. /\ step \in 1..Len(plan) /\ plan[step] \in Step /\ runner = "flow"
      /\ plan \in Seq(Step) /\ doc = "running" /\ status = "executing"
  BY EndStepFrame, AtStep DEF FlowInv, Control, Typed, Places
<1>1. /\ Len(plan') = Len(plan)
      /\ plan'[step].status = "completed"
      /\ \A i \in 1..Len(plan) : i # step => plan'[i] = plan[i]
  <2>1. "completed" \in StepStatus
    BY DEF StepStatus
  <2> QED BY <1>0, <2>1, EndStepFrame, Marked DEF FlowInv
<1>2. /\ finished' = finished \cup {plan[step].id}
      /\ status' = "updating" /\ loop' = NoLoop
      /\ UNCHANGED <<doc, unrecorded>>
  BY EndStepFrame DEF FlowInv
<1>3. \A i \in 1..Len(plan) : plan[i].id = plan[step].id => i = step
  BY <1>0 DEF FlowInv, StepsInv, Well
<1>4. AllFresh(plan, finished) => AllFresh(plan', finished')
  BY <1>1, <1>2, <1>3 DEF AllFresh
<1> QED BY <1>0, <1>2, <1>4, OffLoop DEF FlowInv, FreshInv

LEMMA NextFresh == FlowInv /\ [FlowNext]_flowVars => FreshInv'
<1> SUFFICES ASSUME FlowInv, [FlowNext]_flowVars PROVE FreshInv'
  OBVIOUS
<1>0. /\ Control /\ Typed /\ Places /\ StepsInv /\ FreshInv
      /\ plan \in Seq(Step) /\ recorded \in Seq(Step) /\ ids \in Nat
  BY DEF FlowInv, Control, Typed
<1>1. CASE GoneStep
  <2>1. /\ runner' = "none" /\ loop' = NoLoop /\ UNCHANGED <<recorded, finished, unrecorded>>
        /\ doc' = "waiting" => doc = "waiting" \/ Looping("asking")
    BY <1>1, GoneFrame DEF Gone
  <2>2. Looping("asking") => runner = "flow" /\ status = "executing"
    BY <1>0 DEF Looping, Places
  <2> QED BY <1>0, <2>1, <2>2, OffLoop DEF FreshInv
<1>2. CASE Message
  <2>1. /\ UNCHANGED <<doc, status, plan, recorded, loop, finished, unrecorded>>
        /\ runner' = "flow" => runner = "flow"
    BY <1>2 DEF Message, progress, history
  <2> QED BY <2>1, FreshFrame
<1>3. CASE BeginFlow
  <2>1. /\ plan' = recorded /\ runner = "between" /\ status' = Resumed(doc)
        /\ doc' = "running"
        /\ UNCHANGED <<recorded, finished, loop, unrecorded>>
    BY <1>3 DEF BeginFlow, history
  <2>2. loop.at = "off"
    BY <1>0, <2>1 DEF Places
  <2>3. status' \in {"executing", "updating"} => doc = "waiting"
    BY <1>0, <2>1 DEF Resumed, Places, Typed
  <2> QED BY <1>0, <2>1, <2>2, <2>3 DEF FreshInv
<1>4. CASE StartPlanning \/ StartSummary \/ StartUpdate
  <2>1. /\ UNCHANGED <<doc, runner, plan, recorded, finished, unrecorded>>
        /\ status' = status \/ status' \in {"planning", "summarizing"}
        /\ \E op \in Operation : loop' = Asking(op)
    BY <1>4 DEF StartPlanning, StartSummary, StartUpdate, session, progress, history, Operation
  <2>2. loop'.at # "announce"
    BY <2>1, AskingType
  <2> QED BY <2>1, <2>2, FreshFrame
<1>5. CASE StartStep
  <2>1. /\ runner = "flow" /\ status = "executing" /\ status' = status
        /\ plan' = [plan EXCEPT ![NextStep(plan)].status = "running"]
        /\ NextStep(plan) # 0
        /\ UNCHANGED <<doc, recorded, finished, unrecorded>>
        /\ loop' = NoLoop \/ loop' = Asking("step")
    BY <1>5, YieldEffect DEF StartStep, Idle
  <2>2. /\ NextStep(plan) \in 1..Len(plan) /\ "running" \in StepStatus
        /\ ~ IsDone(plan[NextStep(plan)])
    BY <1>0, <2>1, NextIsFirst DEF StepStatus, Pending
  <2>3. plan' = Mark(plan, NextStep(plan), "running")
    BY <1>0, <2>1, <2>2, Marked
  <2>4. /\ Len(plan') = Len(plan)
        /\ \A i \in 1..Len(plan) : i # NextStep(plan) => plan'[i] = plan[i]
        /\ \A i \in 1..Len(plan) : plan'[i].id = plan[i].id
    BY <1>0, <2>2, <2>3, Marked
  <2>5. plan[NextStep(plan)].status # "completed"
    BY <2>2 DEF IsDone
  <2>6. loop'.at # "announce"
    BY <2>1, AskingType, OffLoop DEF Operation
  <2>7. \A i \in 1..Len(plan) : plan'[i].status # "completed" => plan[i].status # "completed"
    BY <2>4, <2>5
  <2> QED BY <2>1, <2>4, <2>6, <2>7, FreshFrame
<1>6. CASE Complete
  <2>1. /\ doc' = doc /\ doc = "running" /\ runner' = "between" /\ loop'.at = "off"
    BY <1>0, <1>6 DEF Complete, Idle, Places
  <2> QED BY <2>1 DEF FreshInv
<1>7. CASE Reply
  <2>1. loop \in LoopRecord
    BY <1>0 DEF Typed
  <2>2. /\ runner = "flow" /\ UNCHANGED <<doc, recorded, finished, status, unrecorded>>
        /\ plan' = plan \/ plan' = StepFails
        /\ loop.at = "ask"
        /\ \/ loop' = NoLoop
           \/ loop' = [loop EXCEPT !.at = "failed"]
           \/ loop' = [loop EXCEPT !.streak = loop.streak + 1, !.turns = loop.turns + 1]
           \/ loop' = [loop EXCEPT !.at = "calls", !.call = 1, !.streak = 0, !.output = FALSE]
    BY <1>0, <1>7, ReplyFrame
  <2>3. loop'.at # "announce"
    BY <2>1, <2>2, OffLoop DEF LoopRecord
  <2> QED BY <2>2, <2>3, FailedFresh, FreshFrame
<1>8. CASE HandleCall
  <2>1. /\ runner = "flow" /\ UNCHANGED <<doc, recorded, finished, status, unrecorded>>
        /\ plan' = plan \/ plan' = StepFails
    BY <1>0, <1>8, CallFrame
  <2>2. loop'.at # "announce"
    BY <1>0, <1>8, CallFrame, OffLoop
  <2> QED BY <2>1, <2>2, FailedFresh, FreshFrame
<1>9. CASE EndOfCalls
  <2>1. /\ UNCHANGED <<doc, runner, status, plan, recorded, finished, unrecorded>>
        /\ loop'.at # "announce"
    BY <1>0, <1>9, EndOfCallsControl DEF EndOfCalls, session, progress, history
  <2> QED BY <2>1, FreshFrame
<1>10. CASE PlanCreated
  <2>1. PICK n \in 0..MaxSteps :
           ids + n <= MaxIds /\ plan' = NewSteps(n) /\ ids' = ids + n
    BY <1>10 DEF PlanCreated
  <2>2. /\ UNCHANGED <<doc, finished, status>> /\ status = "planning" /\ doc = "running"
    BY <1>0, <1>10 DEF PlanCreated, Looping, Places
  <2>3. n \in Nat
    BY <2>1, FlowConstants
  <2>4. AllFresh(plan', finished')
    BY <1>0, <2>1, <2>2, <2>3, WellNew DEF AllFresh
  <2> QED BY <2>2, <2>4 DEF FreshInv
<1>11. CASE PlanAnnounced
  <2>1. /\ recorded' = plan /\ UNCHANGED <<plan, finished, doc>>
        /\ loop.at = "announce" /\ loop' = NoLoop /\ runner = "flow"
    BY <1>11, YieldEffect DEF PlanAnnounced, Looping
  <2>2. AllFresh(plan, finished) /\ doc = "running"
    BY <1>0, <2>1 DEF FreshInv, Places
  <2> QED BY <2>1, <2>2, OffLoop DEF FreshInv
<1>12. CASE EndStep
  BY <1>12, EndStepFresh
<1>13. CASE EndUpdate
  <2>1. doc' = "running" /\ loop' = NoLoop /\ finished' = finished /\ status' = "executing"
    BY <1>0, <1>13, EndUpdateFrame DEF Places
  <2>2. CASE unrecorded' = TRUE
    BY <2>1, <2>2, OffLoop DEF FreshInv
  <2>3. CASE ~ (unrecorded' = TRUE)
    <3>1. PICK n \in Nat : /\ ids + n <= MaxIds /\ recorded' = plan'
                           /\ plan' = Updated(plan, NewSteps(n))
      BY <1>0, <1>13, <2>3, EndUpdateFrame
    <3>2. \A i \in 1..Len(plan) : Clean(plan[i])
      BY <1>0, <1>13, EndUpdateFrame DEF StepsInv
    <3>3. AllFresh(plan', finished)
      BY <1>0, <3>1, <3>2, WellUpdated DEF AllFresh
    <3> QED BY <2>1, <3>1, <3>3, OffLoop DEF FreshInv
  <2> QED BY <2>2, <2>3
<1>14. CASE EndSummary
  BY <1>14, EndSummaryFrame, OffLoop, FreshFrame
<1>15. CASE UNCHANGED flowVars
  <2>1. UNCHANGED <<doc, runner, status, plan, recorded, loop, finished, unrecorded>>
    BY <1>15 DEF flowVars, session, progress, history
  <2> QED BY <2>1, FreshFrame
<1> QED BY <1>1, <1>2, <1>3, <1>4, <1>5, <1>6, <1>7, <1>8, <1>9, <1>10, <1>11, <1>12,
           <1>13, <1>14, <1>15
        DEF FlowNext, RunnerStep, FlowStep, LoopStep, GoneStep, HandleCall

LEMMA FlowInvariant == FlowSpec => []FlowInv
<1>1. FlowInit => FlowInv
  BY InitControl, InitSteps, OffLoop DEF FlowInit, FlowInv, FreshInv
<1>2. FlowInv /\ [FlowNext]_flowVars => FlowInv'
  BY NextControl, NextSteps, NextFresh DEF FlowInv
<1> QED BY <1>1, <1>2, PTL DEF FlowSpec

\* A step is not executed a second time after it ended, across questions to the
\* user and restarts of the process, unless a failed update of the plan kept its
\* end from being recorded (PlanActFlow.run, PlannerAgent.update_plan).
THEOREM EachStepOnce == FlowSpec => []StepOnce
<1>1. FlowInv => StepOnce
  <2> SUFFICES ASSUME FlowInv, loop.op = "step", ~ unrecorded
               PROVE  plan[step].id \notin finished
    BY DEF StepOnce
  <2>1. step \in 1..Len(plan) /\ runner = "flow" /\ status = "executing"
    BY AtStep DEF FlowInv, Control, Places
  <2>2. plan[step].status # "completed"
    BY <2>1 DEF FlowInv, StepsInv
  <2> QED BY <2>1, <2>2 DEF FlowInv, FreshInv, AllFresh
<1> QED BY <1>1, FlowInvariant, PTL

-----------------------------------------------------------------------------
(* The answer of the user goes to the step that asked.                     *)

\* The plan on record has the step at work, until an update has been recorded;
\* if the last update was not, it has at least a step to resume.
Agreed ==
    /\ runner = "flow" /\ (loop.op = "step" \/ status = "updating") =>
          Pending(recorded) # {}
    /\ loop.op = "step" =>
          unrecorded \/ (step = NextStep(recorded) /\ recorded[step].id = plan[step].id)
    /\ runner = "flow" /\ status = "executing" /\ loop.op = "none" =>
          plan = recorded \/ (unrecorded /\ Pending(recorded) # {})

AskerNext(p) == Pending(p) # {} /\ (unrecorded \/ p[NextStep(p)].id = asker)

\* Where a question is, until the step that asked it ends: with the user, about
\* to be resumed, or with its step.
Asked ==
    asker # 0 =>
      \/ doc = "waiting" /\ AskerNext(recorded) /\ (runner = "between" => inbox > 0)
      \/ runner = "flow" /\ status = "executing" /\ loop.op = "none" /\ AskerNext(plan)
      \/ loop.op = "step" /\ (unrecorded \/ plan[step].id = asker)

\* Outside the executing state nobody has asked.
LEMMA NoQuestion ==
    ASSUME Control, Asked, runner = "flow", status # "executing"
    PROVE  asker = 0
BY DEF Control, Places, Asked

\* A step of a loop that is not left, or of a flow that is abandoned.
LEMMA AskedFrame ==
    ASSUME FlowInv, Agreed, Asked, runner = "flow", loop.at # "off",
           UNCHANGED <<doc, recorded, step, status, unrecorded>>,
           \A i \in 1..Len(plan) : plan'[i].id = plan[i].id,
           \/ runner' = "between" /\ loop' = NoLoop /\ asker' = 0
           \/ runner' = runner /\ loop'.op = loop.op /\ asker' = asker
    PROVE  Agreed' /\ Asked'
<1>0. Control /\ Places
  BY DEF FlowInv, Control
<1>1. CASE runner' = "between" /\ loop' = NoLoop /\ asker' = 0
  BY <1>1, OffLoop DEF Agreed, Asked
<1>2. CASE runner' = runner /\ loop'.op = loop.op /\ asker' = asker
  <2>1. loop.op = "step" => plan'[step].id = plan[step].id
    BY <1>0, AtStep
  <2>2. loop.op # "none"
    BY <1>0 DEF Places
  <2>3. Agreed'
    BY <1>2, <2>1, <2>2 DEF Agreed, Pending
  <2>4. Asked'
    <3>1. asker # 0 => loop.op = "step" /\ (unrecorded \/ plan[step].id = asker)
      BY <1>0, <2>2 DEF Asked, Places
    <3> QED BY <1>2, <2>1, <3>1 DEF Asked
  <2> QED BY <2>3, <2>4
<1> QED BY <1>1, <1>2

LEMMA NextAsked == FlowInv /\ Agreed /\ Asked /\ [FlowNext]_flowVars => Agreed' /\ Asked'
<1> SUFFICES ASSUME FlowInv, Agreed, Asked, [FlowNext]_flowVars PROVE Agreed' /\ Asked'
  OBVIOUS
<1>0. /\ Control /\ Typed /\ Places
      /\ plan \in Seq(Step) /\ recorded \in Seq(Step)
  BY DEF FlowInv, Control, Typed
<1>1. CASE GoneStep
  <2>1. runner' = "none" /\ loop' = NoLoop /\ UNCHANGED <<recorded, unrecorded>>
    BY <1>1, GoneFrame DEF Gone
  <2>2. Agreed'
    BY <2>1, OffLoop DEF Agreed
  <2>3. CASE asker' = 0
    BY <2>2, <2>3 DEF Asked
  <2>4. CASE asker' = asker /\ runner = "between" /\ inbox = 0
    <3>1. asker = 0
      BY <1>0, <2>4 DEF Asked, Places, NoLoop
    <3> QED BY <2>2, <2>4, <3>1 DEF Asked
  <2>5. CASE doc' = "waiting" /\ asker' = plan[step].id /\ Looping("asking")
    <3>1. loop.op = "step" /\ runner = "flow"
      BY <1>0, <2>5 DEF Looping, Places
    <3>2. Pending(recorded) # {} /\ (unrecorded \/ recorded[NextStep(recorded)].id = plan[step].id)
      BY <3>1 DEF Agreed
    <3>3. AskerNext(recorded)'
      BY <2>1, <2>5, <3>2 DEF AskerNext, Pending, NextStep
    <3> QED BY <2>1, <2>2, <2>5, <3>3 DEF Asked
  <2> QED BY <1>1, <2>3, <2>4, <2>5, GoneFrame
<1>2. CASE Message
  <2>1. /\ UNCHANGED <<doc, status, plan, recorded, step, loop, asker, unrecorded>>
        /\ runner' = "flow" <=> runner = "flow"
        /\ inbox' = inbox + 1 \/ inbox' = 1
    BY <1>2 DEF Message, progress, history
  <2>2. inbox' > 0
    BY <1>0, <2>1 DEF Typed
  <2>3. Agreed'
    BY <2>1 DEF Agreed, Pending, NextStep
  <2>4. (AskerNext(recorded) => AskerNext(recorded)') /\ (AskerNext(plan) => AskerNext(plan)')
    BY <2>1 DEF AskerNext, Pending, NextStep
  <2> QED BY <2>1, <2>2, <2>3, <2>4 DEF Asked
<1>3. CASE BeginFlow
  <2>1. /\ plan' = recorded /\ runner = "between" /\ status' = Resumed(doc)
        /\ runner' = "flow"
        /\ UNCHANGED <<recorded, loop, asker, unrecorded>>
    BY <1>3 DEF BeginFlow, history
  <2>2. loop.op = "none"
    BY <1>0, <2>1, OffLoop DEF Places
  <2>3. status' # "updating"
    BY <1>0, <2>1 DEF Resumed, Places, Typed
  <2>4. Agreed'
    BY <2>1, <2>2, <2>3 DEF Agreed
  <2>5. ASSUME asker # 0 PROVE doc = "waiting" /\ AskerNext(recorded)
    BY <2>1, <2>2, <2>5 DEF Asked
  <2>6. AskerNext(recorded) => AskerNext(plan)'
    BY <2>1 DEF AskerNext, Pending, NextStep
  <2>7. doc = "waiting" => status' = "executing"
    BY <2>1 DEF Resumed
  <2> QED BY <2>1, <2>2, <2>4, <2>5, <2>6, <2>7 DEF Asked
<1>4. CASE StartPlanning \/ StartUpdate
  <2>1. /\ UNCHANGED <<runner, recorded, asker>> /\ runner = "flow"
        /\ status \in {"idle", "planning", "updating"} /\ status' \in {"planning", "updating"}
        /\ status' = "updating" => status = "updating"
        /\ \E op \in {"plan", "update"} : loop' = Asking(op)
    BY <1>4 DEF StartPlanning, StartUpdate, Idle, session, progress, history
  <2>2. loop'.op \in {"plan", "update"}
    BY <2>1, AskingType DEF Operation
  <2>3. asker = 0
    BY <1>0, <2>1, NoQuestion
  <2> QED BY <2>1, <2>2, <2>3 DEF Agreed, Asked, Pending
<1>5. CASE StartSummary
  <2>1. /\ UNCHANGED <<runner, recorded, asker>> /\ runner = "flow" /\ loop.at = "off"
        /\ status = "summarizing" \/ (status = "executing" /\ NextStep(plan) = 0)
        /\ status' = "summarizing" /\ loop' = Asking("summary")
    BY <1>5 DEF StartSummary, Idle, session, history
  <2>2. loop'.op = "summary"
    BY <2>1, AskingType DEF Operation
  <2>3. asker = 0
    <3>1. CASE status = "summarizing"
      BY <1>0, <2>1, <3>1, NoQuestion
    <3>2. CASE NextStep(plan) = 0
      <4>1. Pending(plan) = {}
        BY <1>0, <3>2, NextIsFirst
      <4> QED BY <1>0, <2>1, <4>1, OffLoop DEF Asked, AskerNext, Places
    <3> QED BY <2>1, <3>1, <3>2
  <2> QED BY <2>1, <2>2, <2>3 DEF Agreed, Asked
<1>6. CASE StartStep
  <2>1. /\ runner = "flow" /\ loop.at = "off" /\ status = "executing" /\ status' = status
        /\ step' = NextStep(plan) /\ NextStep(plan) # 0
        /\ plan' = [plan EXCEPT ![NextStep(plan)].status = "running"]
        /\ UNCHANGED <<doc, recorded, unrecorded>>
        /\ \/ runner' = "between" /\ loop' = NoLoop /\ asker' = 0
           \/ runner' = runner /\ loop' = Asking("step") /\ asker' = asker
    BY <1>6, YieldEffect DEF StartStep, Idle
  <2>2. NextStep(plan) \in 1..Len(plan) /\ "running" \in StepStatus
        /\ Pending(plan) # {} /\ loop.op = "none"
    BY <1>0, <2>1, NextIsFirst, OffLoop DEF StepStatus, Places
  <2>3. plan'[NextStep(plan)].id = plan[NextStep(plan)].id
    BY <1>0, <2>1, <2>2, Marked
  <2>4. CASE runner' = "between" /\ loop' = NoLoop /\ asker' = 0
    BY <2>4, OffLoop DEF Agreed, Asked
  <2>5. CASE runner' = runner /\ loop' = Asking("step") /\ asker' = asker
    <3>1. loop'.op = "step"
      BY <2>5, AskingType DEF Operation
    <3>2. plan = recorded \/ (unrecorded /\ Pending(recorded) # {})
      BY <2>1, <2>2 DEF Agreed
    <3>3. Agreed'
      <4>1. CASE plan = recorded
        BY <2>1, <2>2, <2>3, <3>1, <4>1 DEF Agreed, Pending, NextStep
      <4>2. CASE unrecorded /\ Pending(recorded) # {}
        BY <2>1, <3>1, <4>2 DEF Agreed, Pending
      <4> QED BY <3>2, <4>1, <4>2
    <3>4. asker # 0 => unrecorded \/ plan[NextStep(plan)].id = asker
      BY <1>0, <2>1, <2>2 DEF Asked, AskerNext, Places
    <3> QED BY <2>1, <2>3, <2>5, <3>1, <3>3, <3>4 DEF Asked
  <2> QED BY <2>1, <2>4, <2>5
<1>7. CASE Complete
  <2>1. runner' = "between" /\ asker' = 0 /\ loop' = loop /\ loop.at = "off"
    BY <1>7 DEF Complete, Idle
  <2> QED BY <1>0, <2>1, OffLoop DEF Agreed, Asked, Places
<1>8. CASE Reply
  <2>1. loop \in LoopRecord
    BY <1>0 DEF Typed
  <2>2. /\ runner = "flow" /\ UNCHANGED <<doc, recorded, step, status, unrecorded>>
        /\ plan' = plan \/ plan' = StepFails
        /\ loop.at = "ask"
        /\ \/ runner' = "between" /\ loop' = NoLoop /\ asker' = 0
           \/ /\ runner' = runner /\ asker' = asker
              /\ \/ loop' = [loop EXCEPT !.at = "failed"]
                 \/ loop' = [loop EXCEPT !.streak = loop.streak + 1, !.turns = loop.turns + 1]
                 \/ loop' = [loop EXCEPT !.at = "calls", !.call = 1, !.streak = 0,
                                         !.output = FALSE]
    BY <1>0, <1>8, ReplyFrame
  <2>3. \/ runner' = "between" /\ loop' = NoLoop /\ asker' = 0
        \/ runner' = runner /\ loop'.op = loop.op /\ asker' = asker
    BY <2>1, <2>2 DEF LoopRecord
  <2> QED BY <2>2, <2>3, FailedFresh, AskedFrame
<1>9. CASE HandleCall
  <2>1. /\ runner = "flow" /\ UNCHANGED <<doc, recorded, step, status, unrecorded>>
        /\ plan' = plan \/ plan' = StepFails
        /\ loop.at # "off"
    BY <1>0, <1>9, CallFrame
  <2>2. \/ runner' = "between" /\ loop' = NoLoop /\ asker' = 0
        \/ runner' = runner /\ loop'.op = loop.op /\ asker' = asker
    BY <1>0, <1>9, CallFrame
  <2> QED BY <2>1, <2>2, FailedFresh, AskedFrame
<1>10. CASE EndOfCalls
  <2>1. /\ UNCHANGED <<doc, runner, status, plan, recorded, step, asker, unrecorded>>
        /\ loop'.op = loop.op /\ runner = "flow" /\ loop.at # "off"
    BY <1>0, <1>10, EndOfCallsControl DEF EndOfCalls, Looping, session, progress, history
  <2> QED BY <2>1, AskedFrame
<1>11. CASE PlanCreated
  <2>1. /\ UNCHANGED <<status>> /\ status = "planning" /\ runner = "flow"
        /\ loop.op = "plan" /\ asker' \in {0, asker}
        /\ loop' = NoLoop \/ loop' = [loop EXCEPT !.at = "announce"]
    BY <1>11, YieldEffect DEF PlanCreated, Looping
  <2>2. loop'.op # "step"
    BY <1>0, <2>1, OffLoop DEF Typed, LoopRecord
  <2>3. asker = 0
    BY <1>0, <2>1, NoQuestion
  <2> QED BY <2>1, <2>2, <2>3 DEF Agreed, Asked
<1>12. CASE PlanAnnounced
  <2>1. /\ recorded' = plan /\ plan' = plan /\ status' \in {"completed", "executing"}
        /\ loop.at = "announce" /\ loop' = NoLoop /\ runner = "flow" /\ asker' \in {0, asker}
    BY <1>12, YieldEffect DEF PlanAnnounced, Looping
  <2>2. asker = 0
    BY <1>0, <2>1, NoQuestion DEF Places
  <2> QED BY <2>1, <2>2, OffLoop DEF Agreed, Asked
<1>13. CASE EndStep
  <2>1. /\ loop.op = "step" /\ runner = "flow"
        /\ status' = "updating" /\ loop' = NoLoop /\ asker' = 0 /\ recorded' = recorded
    BY <1>0, <1>13, EndStepFrame, AtStep
  <2> QED BY <2>1, OffLoop DEF Agreed, Asked, Pending
<1>14. CASE EndUpdate
  <2>1. /\ runner = "flow" /\ status = "updating" /\ status' = "executing"
        /\ loop' = NoLoop /\ asker' \in {0, asker}
        /\ \/ recorded' = plan'
           \/ unrecorded' = TRUE /\ recorded' = recorded
    BY <1>0, <1>14, EndUpdateFrame
  <2>2. asker = 0
    BY <1>0, <2>1, NoQuestion
  <2>3. Pending(recorded) # {}
    BY <2>1 DEF Agreed
  <2> QED BY <2>1, <2>2, <2>3, OffLoop DEF Agreed, Asked, Pending
<1>15. CASE EndSummary
  <2>1. asker = 0
    BY <1>0, <1>15, EndSummaryFrame, NoQuestion DEF Places
  <2> QED BY <1>15, <2>1, EndSummaryFrame, OffLoop DEF Agreed, Asked
<1>16. CASE UNCHANGED flowVars
  <2>1. UNCHANGED <<doc, inbox, runner, status, plan, recorded, step, loop, asker, unrecorded>>
    BY <1>16 DEF flowVars, session, progress, history
  <2> QED BY <2>1 DEF Agreed, Asked, AskerNext, Pending, NextStep
<1> QED BY <1>1, <1>2, <1>3, <1>4, <1>5, <1>6, <1>7, <1>8, <1>9, <1>10, <1>11, <1>12,
           <1>13, <1>14, <1>15, <1>16
        DEF FlowNext, RunnerStep, FlowStep, LoopStep, GoneStep, HandleCall

\* The answer to a question goes to the step that asked it: after the session
\* waited, the flow works on no other step, and neither plans nor sums up, before
\* that step has ended; the plan is read back from the events, so this is only so
\* if the last update of the plan was recorded (PlanActFlow.run,
\* Session.get_last_plan).
THEOREM AnswersArrive == FlowSpec => []AnswerReachesAsker
<1>1. FlowInit => Agreed /\ Asked
  BY OffLoop DEF FlowInit, Agreed, Asked
<1>2. FlowInv /\ Agreed /\ Asked => AnswerReachesAsker
  BY DEF FlowInv, Control, Places, Asked, AnswerReachesAsker
<1> QED BY <1>1, <1>2, NextAsked, FlowInvariant, PTL DEF FlowSpec

-----------------------------------------------------------------------------
(* A call of the agent loop comes to an end: the argument for LoopEnds. The *)
(* turns that are left, then the stage of the turn, then the calls of the   *)
(* reply that are left, only fall.                                          *)

InLoop == loop.at # "off"
TurnsLeft == MaxIterations - loop.turns
StageLeft == IF loop.at = "ask" THEN 3
             ELSE IF loop.at = "calls" THEN 2
             ELSE IF loop.at = "result" THEN 1
             ELSE 0
CallsLeft == IF loop.at = "calls" THEN Len(memory[Me].open) + 1 - loop.call ELSE 0

Shorter ==
    \/ TurnsLeft' < TurnsLeft
    \/ TurnsLeft' = TurnsLeft /\ StageLeft' < StageLeft
    \/ TurnsLeft' = TurnsLeft /\ StageLeft' = StageLeft /\ CallsLeft' < CallsLeft

\* None of them falls below zero.
LeftInv == TurnsLeft \in Nat /\ StageLeft \in Nat /\ CallsLeft \in Nat

\* The only step that neither ends the loop nor brings it closer to its end is a
\* message of the user, which leaves it alone.
LoopShortens ==
    [][InLoop => ~InLoop' \/ Shorter \/ (Message /\ UNCHANGED <<loop, memory>>)]_flowVars

CallsInOrder == loop.at = "calls" => loop.call \in 1..Len(memory[Me].open) + 1

LEMMA LeftMade == ASSUME Control, CallsInOrder PROVE LeftInv
<1>1. loop.turns \in 0..MaxIterations /\ MaxIterations \in Nat
  BY FlowConstants DEF Control, Typed, LoopRecord
<1>2. TurnsLeft \in Nat
  BY <1>1 DEF TurnsLeft
<1>3. StageLeft \in Nat
  BY DEF StageLeft
<1>4. CallsLeft \in Nat
  <2>1. Len(memory[Me].open) \in Nat
    BY SomeTypes DEF Control, Typed, MemoryRecord
  <2> QED BY <2>1 DEF CallsInOrder, CallsLeft
<1> QED BY <1>2, <1>3, <1>4 DEF LeftInv

\* A later stage of the same turn, or another turn, is closer to the end.
LEMMA Shortens ==
    ASSUME Control
    PROVE  /\ loop'.turns = loop.turns /\ StageLeft' < StageLeft => Shorter
           /\ loop'.turns = loop.turns + 1 => Shorter
<1>1. loop.turns \in 0..MaxIterations /\ MaxIterations \in Nat
  BY FlowConstants DEF Control, Typed, LoopRecord
<1> QED BY <1>1 DEF Shorter, TurnsLeft

LEMMA ReplyShortens == ASSUME Control, Reply PROVE ~InLoop' \/ (Shorter /\ CallsInOrder')
<1>1. PICK calls \in Seq(Call) :
         /\ Remember(AddReply(memory[Me], calls))
         /\ loop.at = "ask"
         /\ \/ loop' = NoLoop
            \/ loop' = [loop EXCEPT !.at = "failed"]
            \/ loop' = [loop EXCEPT !.streak = loop.streak + 1, !.turns = loop.turns + 1]
            \/ loop' = [loop EXCEPT !.at = "calls", !.call = 1, !.streak = 0,
                                    !.output = FALSE]
  BY ReplyFrame
<1>2. loop \in LoopRecord /\ Typed
  BY DEF Control, Typed
<1>3. memory'[Me].open = calls /\ Len(calls) \in Nat
  BY <1>1, <1>2, ReplyMemory
<1>4. CASE loop' = NoLoop
  BY <1>4, OffLoop DEF InLoop
<1>5. CASE loop' = [loop EXCEPT !.at = "failed"]
  <2>1. loop'.at = "failed" /\ loop'.turns = loop.turns
    BY <1>2, <1>5 DEF LoopRecord
  <2>2. StageLeft = 3 /\ StageLeft' = 0
    BY <1>1, <2>1 DEF StageLeft
  <2> QED BY <2>1, <2>2, Shortens DEF CallsInOrder
<1>6. CASE loop' = [loop EXCEPT !.streak = loop.streak + 1, !.turns = loop.turns + 1]
  <2>1. loop'.at = "ask" /\ loop'.turns = loop.turns + 1
    BY <1>1, <1>2, <1>6 DEF LoopRecord
  <2> QED BY <2>1, Shortens DEF CallsInOrder
<1>7. CASE loop' = [loop EXCEPT !.at = "calls", !.call = 1, !.streak = 0, !.output = FALSE]
  <2>1. /\ loop'.at = "calls" /\ loop'.call = 1 /\ loop'.op = loop.op
        /\ loop'.turns = loop.turns
    BY <1>2, <1>7 DEF LoopRecord
  <2>2. StageLeft = 3 /\ StageLeft' = 2
    BY <1>1, <2>1 DEF StageLeft
  <2>3. CallsInOrder'
    BY <1>3, <2>1 DEF CallsInOrder, Me
  <2> QED BY <2>1, <2>2, <2>3, Shortens
<1> QED BY <1>1, <1>4, <1>5, <1>6, <1>7

LEMMA CallShortens ==
    ASSUME Control, CallsInOrder, HandleCall
    PROVE  ~InLoop' \/ (Shorter /\ CallsInOrder')
<1>1. /\ loop \in LoopRecord /\ loop.at = "calls" /\ UNCHANGED memory
      /\ loop.call \in Nat /\ loop.call <= Len(memory[Me].open)
      /\ Len(memory[Me].open) \in Nat /\ loop.turns \in Nat
  <2>1. loop \in LoopRecord /\ loop.at = "calls" /\ UNCHANGED memory
    BY CallFrame
  <2>2. loop.call <= Len(memory[Me].open)
    BY DEF HandleCall, HandleOutputCall, UnknownTool, InvokeTool, AskUser
  <2>3. Len(memory[Me].open) \in Nat
    BY SomeTypes DEF Control, Typed, MemoryRecord
  <2>4. loop.call \in Nat /\ loop.turns \in Nat
    BY <2>1, FlowConstants DEF LoopRecord
  <2> QED BY <2>1, <2>2, <2>3, <2>4
<1>2. \/ loop' = NoLoop
      \/ \E output \in BOOLEAN :
            loop' = [loop EXCEPT !.call = loop.call + 1, !.output = output]
      \/ loop' = [loop EXCEPT !.call = loop.call + 1]
      \/ loop' = [loop EXCEPT !.at = "asking"]
  BY YieldEffect DEF HandleCall, HandleOutputCall, UnknownTool, InvokeTool, AskUser
<1>3. CASE loop' = NoLoop
  BY <1>3, OffLoop DEF InLoop
<1>4. ASSUME loop'.at = "calls", loop'.call = loop.call + 1, loop'.op = loop.op,
             loop'.turns = loop.turns
      PROVE  Shorter /\ CallsInOrder'
  <2>1. TurnsLeft' = TurnsLeft /\ StageLeft' = StageLeft
    BY <1>1, <1>4 DEF TurnsLeft, StageLeft
  <2>2. CallsLeft' < CallsLeft
    BY <1>1, <1>4 DEF CallsLeft, Me
  <2>3. CallsInOrder'
    BY <1>1, <1>4 DEF CallsInOrder, Me
  <2> QED BY <2>1, <2>2, <2>3 DEF Shorter
<1>5. CASE \E output \in BOOLEAN :
              loop' = [loop EXCEPT !.call = loop.call + 1, !.output = output]
  <2>1. /\ loop'.at = "calls" /\ loop'.call = loop.call + 1 /\ loop'.op = loop.op
        /\ loop'.turns = loop.turns
    BY <1>1, <1>5 DEF LoopRecord
  <2> QED BY <1>4, <2>1
<1>6. CASE loop' = [loop EXCEPT !.call = loop.call + 1]
  <2>1. /\ loop'.at = "calls" /\ loop'.call = loop.call + 1 /\ loop'.op = loop.op
        /\ loop'.turns = loop.turns
    BY <1>1, <1>6 DEF LoopRecord
  <2> QED BY <1>4, <2>1
<1>7. CASE loop' = [loop EXCEPT !.at = "asking"]
  <2>1. loop'.at = "asking" /\ loop'.turns = loop.turns
    BY <1>1, <1>7 DEF LoopRecord
  <2>2. StageLeft = 2 /\ StageLeft' = 0
    BY <1>1, <2>1 DEF StageLeft
  <2> QED BY <2>1, <2>2, Shortens DEF CallsInOrder
<1> QED BY <1>2, <1>3, <1>5, <1>6, <1>7

LEMMA EndOfCallsShortens == ASSUME Control, EndOfCalls PROVE Shorter /\ CallsInOrder'
<1>1. loop \in LoopRecord /\ loop.at = "calls"
  BY DEF Control, Typed, EndOfCalls, Looping
<1>2. \/ loop' = [loop EXCEPT !.at = "result"]
      \/ loop' = [loop EXCEPT !.at = "ask", !.turns = loop.turns + 1]
  BY DEF EndOfCalls, Iterated
<1>3. CASE loop' = [loop EXCEPT !.at = "result"]
  <2>1. loop'.at = "result" /\ loop'.turns = loop.turns
    BY <1>1, <1>3 DEF LoopRecord
  <2>2. StageLeft = 2 /\ StageLeft' = 1
    BY <1>1, <2>1 DEF StageLeft
  <2> QED BY <2>1, <2>2, Shortens DEF CallsInOrder
<1>4. CASE loop' = [loop EXCEPT !.at = "ask", !.turns = loop.turns + 1]
  <2>1. loop'.at = "ask" /\ loop'.turns = loop.turns + 1
    BY <1>1, <1>4 DEF LoopRecord
  <2> QED BY <2>1, Shortens DEF CallsInOrder
<1> QED BY <1>2, <1>3, <1>4

LEMMA PlanCreatedShortens ==
    ASSUME Control, PlanCreated PROVE ~InLoop' \/ (Shorter /\ CallsInOrder')
<1>1. /\ loop \in LoopRecord /\ loop.at = "result"
      /\ loop' = NoLoop \/ loop' = [loop EXCEPT !.at = "announce"]
  BY YieldEffect DEF Control, Typed, PlanCreated, Looping
<1>2. CASE loop' = NoLoop
  BY <1>2, OffLoop DEF InLoop
<1>3. CASE loop' = [loop EXCEPT !.at = "announce"]
  <2>1. loop'.at = "announce" /\ loop'.turns = loop.turns
    BY <1>1, <1>3 DEF LoopRecord
  <2>2. StageLeft = 1 /\ StageLeft' = 0
    BY <1>1, <2>1 DEF StageLeft
  <2> QED BY <2>1, <2>2, Shortens DEF CallsInOrder
<1> QED BY <1>1, <1>2, <1>3

LEMMA LoopFalls ==
    ASSUME Control, CallsInOrder, InLoop, FlowNext
    PROVE  ~InLoop' \/ (Shorter /\ CallsInOrder') \/ (Message /\ UNCHANGED <<loop, memory>>)
<1>1. CASE GoneStep
  BY <1>1, GoneFrame, OffLoop DEF Gone, InLoop
<1>2. CASE Message
  BY <1>2 DEF Message
<1>3. ~BeginFlow /\ ~StartPlanning /\ ~StartStep /\ ~StartSummary /\ ~StartUpdate /\ ~Complete
  BY DEF BeginFlow, StartPlanning, StartStep, StartSummary, StartUpdate, Complete, Idle,
         InLoop, Control, Places
<1>4. CASE PlanAnnounced \/ EndStep \/ EndUpdate \/ EndSummary
  <2>1. loop' = NoLoop
    BY <1>4, YieldEffect DEF PlanAnnounced, EndStep, EndUpdate, EndSummary
  <2> QED BY <2>1, OffLoop DEF InLoop
<1> QED BY <1>1, <1>2, <1>3, <1>4, ReplyShortens, CallShortens, EndOfCallsShortens,
           PlanCreatedShortens
        DEF FlowNext, RunnerStep, FlowStep, LoopStep, GoneStep, HandleCall

LEMMA NextCalls == Control /\ CallsInOrder /\ [FlowNext]_flowVars => CallsInOrder'
<1> SUFFICES ASSUME Control, CallsInOrder, [FlowNext]_flowVars, loop'.at = "calls"
             PROVE  CallsInOrder'
  BY DEF CallsInOrder
<1>1. CASE UNCHANGED <<loop, memory>>
  BY <1>1 DEF CallsInOrder, Me
<1>2. CASE UNCHANGED flowVars
  BY <1>1, <1>2 DEF flowVars
<1>3. ASSUME FlowNext, ~InLoop
      PROVE  loop'.at # "calls"
  <2>1. CASE GoneStep
    BY <2>1, GoneFrame, OffLoop DEF Gone
  <2>2. CASE Message
    BY <1>3, <2>2 DEF Message, InLoop
  <2>3. CASE BeginFlow \/ Complete
    BY <1>3, <2>3 DEF BeginFlow, Complete, InLoop
  <2>4. CASE StartPlanning \/ StartSummary \/ StartUpdate
    <3>1. PICK op \in Operation : loop' = Asking(op)
      BY <2>4 DEF StartPlanning, StartSummary, StartUpdate, Operation
    <3> QED BY <3>1, AskingType
  <2>5. CASE StartStep
    <3>1. loop' = NoLoop \/ loop' = Asking("step")
      BY <2>5, YieldEffect DEF StartStep
    <3> QED BY <3>1, OffLoop, AskingType DEF Operation
  <2>6. ~Reply /\ ~HandleCall /\ ~EndOfCalls /\ ~PlanCreated /\ ~PlanAnnounced
        /\ ~EndStep /\ ~EndUpdate /\ ~EndSummary
    BY <1>3 DEF Reply, HandleCall, HandleOutputCall, UnknownTool, InvokeTool, AskUser,
       EndOfCalls, PlanCreated, PlanAnnounced, EndStep, EndUpdate, EndSummary, Looping, InLoop
  <2> QED BY <1>3, <2>1, <2>2, <2>3, <2>4, <2>5, <2>6
          DEF FlowNext, RunnerStep, FlowStep, LoopStep, GoneStep, HandleCall
<1> QED BY <1>1, <1>2, <1>3, LoopFalls DEF InLoop

\* Every step of a call of the agent loop brings it closer to its end, whatever the
\* model replies and whatever its tools do, for any limits: a reply that calls tools
\* uses up its calls, one that does not, or has no valid output, uses up a turn, and
\* the turns are limited (BaseAgent.execute).
THEOREM LoopRunsOut == FlowSpec => LoopShortens /\ []LeftInv
<1>1. FlowInit => CallsInOrder
  BY OffLoop DEF FlowInit, CallsInOrder
<1>2. Control /\ CallsInOrder => LeftInv
  BY LeftMade
<1>3. Control /\ CallsInOrder /\ [FlowNext]_flowVars =>
         [InLoop => ~InLoop' \/ Shorter \/ (Message /\ UNCHANGED <<loop, memory>>)]_flowVars
  BY LoopFalls
<1> QED BY <1>1, <1>2, <1>3, NextCalls, ControlInvariant, PTL DEF FlowSpec, LoopShortens
=============================================================================
