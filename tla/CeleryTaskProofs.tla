--------------------------- MODULE CeleryTaskProofs ---------------------------
(***************************************************************************)
(* Theorems about CeleryTask, for any number of calls of run() and         *)
(* cancel(), with all the faults the module knows of.                      *)
(***************************************************************************)
EXTENDS CeleryTask, TLAPS

JobRecord == [at : JobPlaces, by : Cancels \cup {None}]
CancelRecord == [at : CancelPlaces, aims : SUBSET Runs]

-------------------------------------------------------------------------------
(* What each kind of step changes.                                         *)

Busy(r) == runs[r] \in {"clear", "write", "send"}

\* run() moves one call forward, and only its last step sends a job.
LEMMA RunFrame ==
    ASSUME TypeOK, NEW r \in Runs, Run(r)
    PROVE  /\ cancels' = cancels
           /\ \A q \in Runs \ {r} : runs'[q] = runs[q] /\ jobs'[q] = jobs[q]
           /\ \/ /\ runs[r] = "new" /\ runs'[r] \in {"clear", "over"}
                 /\ runs'[r] = "clear" => Enqueues /\ MayCall(r)
                 /\ UNCHANGED <<status, flag, jobs>>
              \/ /\ runs[r] = "clear" /\ runs'[r] = "write" /\ flag' = None
                 /\ UNCHANGED <<status, jobs>>
              \/ /\ runs[r] = "write" /\ runs'[r] = "send" /\ status' = "pending"
                 /\ UNCHANGED <<flag, jobs>>
              \/ /\ runs[r] = "send" /\ runs'[r] = "over"
                 /\ jobs'[r] = [at |-> "queued", by |-> jobs[r].by]
                 /\ UNCHANGED <<status, flag>>
              \/ /\ Busy(r) /\ runs'[r] = (IF runs[r] = "send" THEN "cut" ELSE "over")
                 /\ UNCHANGED <<status, flag, jobs>>
<1>1. runs \in [Runs -> RunPlaces] /\ jobs \in [Runs -> JobRecord]
  BY DEF TypeOK, JobRecord
<1>2. CASE RunRead(r)
  BY <1>1, <1>2 DEF RunRead, RunTo
<1>3. CASE RunClear(r) \/ RunWrite(r)
  BY <1>1, <1>3 DEF RunClear, RunWrite, RunTo
<1>4. CASE RunSend(r)
  BY <1>1, <1>4 DEF RunSend, RunTo, JobRecord
<1>5. CASE RunFails(r)
  BY <1>1, <1>5 DEF RunFails, RunTo, Busy
<1> QED BY <1>2, <1>3, <1>4, <1>5 DEF Run

\* A worker moves one job forward. It writes a status at the start and at the
\* end of it, and clears the flag.
LEMMA JobFrame ==
    ASSUME TypeOK, NEW r \in Runs, Job(r)
    PROVE  /\ runs' = runs /\ cancels' = cancels
           /\ flag' \in {flag, None}
           /\ \A q \in Runs \ {r} : jobs'[q] = jobs[q]
           /\ Live(r)
           /\ jobs'[r] \in JobRecord /\ jobs'[r].at # "unsent"
           /\ \/ jobs'[r].by = jobs[r].by
              \/ flag # None /\ jobs'[r].by = flag
           /\ \/ status' = status
              \/ status' = "running"
              \/ status' = "done" /\ jobs'[r].at = "over"
<1>1. jobs \in [Runs -> JobRecord] /\ flag \in Cancels \cup {None}
  BY DEF TypeOK, JobRecord
<1>2. CASE Pick(r) \/ AgentEnds(r) \/ CancelledEnds(r)
  BY <1>1, <1>2 DEF Pick, AgentEnds, CancelledEnds, JobMoves, Live, JobRecord, JobPlaces
<1>3. CASE WriteRunning(r) \/ WriteDone(r) \/ ClearFlag(r)
  BY <1>1, <1>3 DEF WriteRunning, WriteDone, ClearFlag, JobMoves, Live, JobRecord, JobPlaces
<1>4. CASE Watch(r)
  BY <1>1, <1>4 DEF Watch, Live, JobRecord, JobPlaces
<1>5. CASE JobGone(r)
  BY <1>1, <1>5 DEF JobGone, Live, JobRecord, JobPlaces
<1> QED BY <1>2, <1>3, <1>4, <1>5 DEF Job, Supervise

\* cancel() ends once, with the flag set for the jobs it is for.
LEMMA CancelFrame ==
    ASSUME TypeOK, NEW c \in Cancels, Cancel(c)
    PROVE  /\ UNCHANGED <<status, runs, jobs>>
           /\ \A d \in Cancels \ {c} : cancels'[d] = cancels[d]
           /\ cancels[c].at \notin {"over", "lapsed"}
           /\ cancels'[c] \in CancelRecord
           /\ cancels'[c].at = "over" \/ cancels'[c].aims = cancels[c].aims
           /\ \/ flag' = flag
              \/ /\ flag' = c /\ cancels'[c].at = "over"
                 /\ \A r \in Runs : runs[r] \in {"write", "send"} \/ Live(r)
                                       => r \in cancels'[c].aims
<1>1. cancels \in [Cancels -> CancelRecord]
  BY DEF TypeOK, CancelRecord
<1>2. CASE CancelRead(c)
  BY <1>1, <1>2 DEF CancelRead, CancelRecord, CancelPlaces
<1>3. CASE CancelSet(c)
  <2>1. cancels'[c] = [at |-> "over",
                       aims |-> {r \in Runs : runs[r] \in {"write", "send"} \/ Live(r)}]
    BY <1>1, <1>3 DEF CancelSet, CancelRecord
  <2>2. cancels'[c] \in CancelRecord
    BY <2>1 DEF CancelRecord, CancelPlaces
  <2>3. \A d \in Cancels \ {c} : cancels'[d] = cancels[d]
    BY <1>1, <1>3 DEF CancelSet
  <2>4. \A r \in Runs : runs[r] \in {"write", "send"} \/ Live(r) => r \in cancels'[c].aims
    BY <2>1
  <2>5. UNCHANGED <<status, runs, jobs>> /\ flag' = c /\ cancels[c].at = "set"
    BY <1>3 DEF CancelSet
  <2> QED BY <2>1, <2>2, <2>3, <2>4, <2>5
<1> QED BY <1>2, <1>3 DEF Cancel

\* A flag expires for the one who set it, and for nobody else.
LEMMA ExpiryFrame ==
    ASSUME TypeOK, FlagExpires
    PROVE  /\ UNCHANGED <<status, runs, jobs>>
           /\ flag \in Cancels /\ flag' = None
           /\ cancels'[flag] = [at |-> "lapsed", aims |-> cancels[flag].aims]
           /\ \A d \in Cancels \ {flag} : cancels'[d] = cancels[d]
           /\ \A d \in Cancels : cancels'[d].aims = cancels[d].aims
<1>1. cancels \in [Cancels -> CancelRecord] /\ flag \in Cancels \cup {None}
  BY DEF TypeOK, CancelRecord
<1>2. flag \in Cancels /\ cancels[flag] \in CancelRecord
  BY <1>1 DEF FlagExpires
<1> QED BY <1>1, <1>2 DEF FlagExpires, CancelRecord

-------------------------------------------------------------------------------
(* Type correctness.                                                       *)

LEMMA InitType == Init => TypeOK
BY DEF Init, TypeOK, Statuses, RunPlaces, JobPlaces, CancelPlaces

LEMMA NextType == TypeOK /\ [Next]_vars => TypeOK'
<1> SUFFICES ASSUME TypeOK, [Next]_vars PROVE TypeOK'
  OBVIOUS
<1>0. /\ status \in Statuses /\ flag \in Cancels \cup {None}
      /\ runs \in [Runs -> RunPlaces] /\ jobs \in [Runs -> JobRecord]
      /\ cancels \in [Cancels -> CancelRecord]
      /\ \A r \in Runs : jobs[r].at # "unsent" => runs[r] = "over"
  BY DEF TypeOK, JobRecord, CancelRecord
<1> SUFFICES /\ status' \in Statuses /\ flag' \in Cancels \cup {None}
             /\ runs' \in [Runs -> RunPlaces] /\ jobs' \in [Runs -> JobRecord]
             /\ cancels' \in [Cancels -> CancelRecord]
             /\ \A r \in Runs : jobs'[r].at # "unsent" => runs'[r] = "over"
  BY DEF TypeOK, JobRecord, CancelRecord
<1>1. ASSUME NEW r \in Runs, Run(r)
      PROVE  /\ status' \in Statuses /\ flag' \in Cancels \cup {None}
             /\ runs' \in [Runs -> RunPlaces] /\ jobs' \in [Runs -> JobRecord]
             /\ cancels' \in [Cancels -> CancelRecord]
             /\ \A q \in Runs : jobs'[q].at # "unsent" => runs'[q] = "over"
  <2>1. runs' \in [Runs -> RunPlaces]
    BY <1>0, <1>1 DEF Run, RunRead, RunClear, RunWrite, RunSend, RunFails, RunTo, RunPlaces
  <2>2. jobs' \in [Runs -> JobRecord]
    BY <1>0, <1>1 DEF Run, RunRead, RunClear, RunWrite, RunSend, RunFails, JobRecord, JobPlaces
  <2>3. status' \in Statuses /\ flag' \in Cancels \cup {None} /\ cancels' = cancels
    BY <1>0, <1>1, RunFrame DEF Statuses
  <2>4. \A q \in Runs : jobs'[q].at # "unsent" => runs'[q] = "over"
    BY <1>0, <1>1, RunFrame
  <2> QED BY <1>0, <2>1, <2>2, <2>3, <2>4
<1>2. ASSUME NEW r \in Runs, Job(r)
      PROVE  /\ status' \in Statuses /\ flag' \in Cancels \cup {None}
             /\ jobs' \in [Runs -> JobRecord] /\ runs' = runs /\ cancels' = cancels
             /\ \A q \in Runs : jobs'[q].at # "unsent" => runs'[q] = "over"
  <2>1. status' \in Statuses /\ flag' \in Cancels \cup {None} /\ runs' = runs /\ cancels' = cancels
    BY <1>0, <1>2, JobFrame DEF Statuses
  <2>2. jobs' \in [Runs -> JobRecord]
    BY <1>0, <1>2
    DEF Job, Supervise, Pick, WriteRunning, AgentEnds, Watch, CancelledEnds,
        ClearFlag, WriteDone, JobGone, JobMoves, JobRecord, JobPlaces
  <2>3. runs[r] = "over"
    BY <1>0, <1>2, JobFrame DEF Live
  <2> QED BY <1>0, <1>2, <2>1, <2>2, <2>3, JobFrame
<1>3. ASSUME NEW c \in Cancels, Cancel(c)
      PROVE  /\ flag' \in Cancels \cup {None}
             /\ cancels' \in [Cancels -> CancelRecord]
             /\ UNCHANGED <<status, runs, jobs>>
  <2>1. cancels' \in [Cancels -> CancelRecord]
    BY <1>0, <1>3 DEF Cancel, CancelRead, CancelSet, CancelRecord, CancelPlaces
  <2> QED BY <1>0, <1>3, <2>1, CancelFrame
<1>4. ASSUME FlagExpires
      PROVE  /\ flag' \in Cancels \cup {None}
             /\ cancels' \in [Cancels -> CancelRecord]
             /\ UNCHANGED <<status, runs, jobs>>
  BY <1>0, <1>4 DEF FlagExpires, CancelRecord, CancelPlaces
<1>5. CASE UNCHANGED vars
  BY <1>0, <1>5 DEF vars
<1> QED BY <1>0, <1>1, <1>2, <1>3, <1>4, <1>5 DEF Next

-------------------------------------------------------------------------------
(* A flag ends no job that it was not set for.                             *)

\* Whom a flag can reach: the jobs it sees, and those that will see it.
Reach(r) == runs[r] \in {"write", "send"} \/ Live(r)

\* A flag that is set was set for every job it can reach.
FlagFresh == flag # None => /\ cancels[flag].at = "over"
                            /\ \A r \in Runs : Reach(r) => r \in cancels[flag].aims

\* The cancel() that ended a job is over, so that its aims do not change.
KillerOver == \A r \in Runs :
                 jobs[r].by # None => cancels[jobs[r].by].at \in {"over", "lapsed"}

\* A cancel() that has not set the flag is for no job yet.
AimsLast == \A c \in Cancels :
               cancels[c].at \notin {"over", "lapsed"} => cancels[c].aims = {}

FlagInv == TypeOK /\ FlagFresh /\ KillerOver /\ NoStaleCancel /\ AimsLast

LEMMA NextFlag == FlagInv /\ [Next]_vars => FlagInv'
<1> SUFFICES ASSUME FlagInv, [Next]_vars PROVE FlagInv'
  OBVIOUS
<1>a. AimsLast'
  <2>0. TypeOK /\ AimsLast
    BY DEF FlagInv
  <2>1. ASSUME NEW r \in Runs, Run(r) \/ Job(r) PROVE cancels' = cancels
    BY <2>0, <2>1, RunFrame, JobFrame
  <2>2. ASSUME NEW c \in Cancels, Cancel(c) PROVE AimsLast'
    BY <2>0, <2>2, CancelFrame DEF AimsLast
  <2>3. CASE FlagExpires
    BY <2>0, <2>3, ExpiryFrame DEF AimsLast
  <2> QED BY <2>0, <2>1, <2>2, <2>3 DEF Next, vars, AimsLast
<1>0. /\ TypeOK /\ FlagFresh /\ KillerOver /\ NoStaleCancel /\ TypeOK'
      /\ None \notin Cancels
      /\ flag \in Cancels \cup {None}
      /\ \A r \in Runs : jobs[r].by \in Cancels \cup {None}
  BY NextType, ConstantsAssumption DEF FlagInv, TypeOK
<1>1. ASSUME NEW r \in Runs, Run(r)
      PROVE  FlagFresh' /\ KillerOver' /\ NoStaleCancel'
  <2>1. /\ cancels' = cancels /\ flag' \in {flag, None}
        /\ \A q \in Runs : jobs'[q].by = jobs[q].by
    <3>1. /\ cancels' = cancels /\ flag' \in {flag, None}
          /\ \A q \in Runs \ {r} : jobs'[q] = jobs[q]
      BY <1>0, <1>1, RunFrame
    <3>2. jobs' = jobs \/ jobs'[r] = [at |-> "queued", by |-> jobs[r].by]
      BY <1>0, <1>1, RunFrame
    <3>3. jobs'[r].by = jobs[r].by
      BY <3>2
    <3> QED BY <3>1, <3>3
  <2>2. KillerOver' /\ NoStaleCancel'
    BY <1>0, <2>1 DEF KillerOver, NoStaleCancel
  <2>3. ASSUME NEW q \in Runs, flag' # None, Reach(q)' PROVE Reach(q)
    <3>1. CASE q # r
      BY <1>0, <1>1, <2>3, <3>1, RunFrame DEF Reach, Live
    <3>2. CASE q = r
      BY <1>0, <1>1, <2>3, <3>2, RunFrame DEF Reach, Live
    <3> QED BY <3>1, <3>2
  <2>4. FlagFresh'
    <3> SUFFICES ASSUME flag' # None
                 PROVE  /\ cancels'[flag'].at = "over"
                        /\ \A q \in Runs : Reach(q)' => q \in cancels'[flag'].aims
      BY DEF FlagFresh
    <3>1. flag' = flag
      BY <2>1
    <3> QED BY <1>0, <2>1, <2>3, <3>1 DEF FlagFresh
  <2> QED BY <2>2, <2>4
<1>2. ASSUME NEW r \in Runs, Job(r)
      PROVE  FlagFresh' /\ KillerOver' /\ NoStaleCancel'
  <2>1. /\ runs' = runs /\ cancels' = cancels /\ flag' \in {flag, None}
        /\ \A q \in Runs \ {r} : jobs'[q] = jobs[q]
        /\ Live(r)
        /\ \/ jobs'[r].by = jobs[r].by
           \/ flag # None /\ jobs'[r].by = flag
    BY <1>0, <1>2, JobFrame
  <2>2. flag # None => cancels[flag].at = "over" /\ r \in cancels[flag].aims
    BY <1>0, <2>1 DEF FlagFresh, Reach
  <2>3. KillerOver' /\ NoStaleCancel'
    <3> SUFFICES ASSUME NEW q \in Runs, jobs'[q].by # None
                 PROVE  /\ cancels'[jobs'[q].by].at \in {"over", "lapsed"}
                        /\ q \in cancels'[jobs'[q].by].aims
      BY DEF KillerOver, NoStaleCancel
    <3>1. CASE jobs'[q].by = jobs[q].by
      BY <1>0, <2>1, <3>1 DEF KillerOver, NoStaleCancel
    <3>2. CASE jobs'[q].by # jobs[q].by
      BY <1>0, <2>1, <2>2, <3>2
    <3> QED BY <3>1, <3>2
  <2>4. \A q \in Runs : Reach(q)' => Reach(q)
    BY <2>1 DEF Reach, Live
  <2>5. FlagFresh'
    BY <1>0, <2>1, <2>4 DEF FlagFresh
  <2> QED BY <2>3, <2>5
<1>3. ASSUME NEW c \in Cancels, Cancel(c)
      PROVE  FlagFresh' /\ KillerOver' /\ NoStaleCancel'
  <2>1. /\ runs' = runs /\ jobs' = jobs
        /\ \A d \in Cancels \ {c} : cancels'[d] = cancels[d]
        /\ cancels[c].at \notin {"over", "lapsed"}
        /\ \/ flag' = flag
           \/ /\ flag' = c /\ cancels'[c].at = "over"
              /\ \A r \in Runs : Reach(r) => r \in cancels'[c].aims
    BY <1>0, <1>3, CancelFrame DEF Reach
  <2>2. KillerOver' /\ NoStaleCancel'
    <3> SUFFICES ASSUME NEW q \in Runs, jobs'[q].by # None
                 PROVE  /\ cancels'[jobs'[q].by].at \in {"over", "lapsed"}
                        /\ q \in cancels'[jobs'[q].by].aims
      BY DEF KillerOver, NoStaleCancel
    <3>1. jobs[q].by \in Cancels \ {c}
      BY <1>0, <2>1 DEF KillerOver
    <3> QED BY <1>0, <2>1, <3>1 DEF KillerOver, NoStaleCancel
  <2>3. \A q \in Runs : Reach(q)' <=> Reach(q)
    BY <2>1 DEF Reach, Live
  <2>4. FlagFresh'
    <3>1. CASE flag' = c
      BY <1>0, <2>1, <2>3, <3>1 DEF FlagFresh
    <3>2. CASE flag' # c
      <4> SUFFICES ASSUME flag' # None
                   PROVE  /\ cancels'[flag'].at = "over"
                          /\ \A q \in Runs : Reach(q)' => q \in cancels'[flag'].aims
        BY DEF FlagFresh
      <4>1. flag' = flag /\ flag \in Cancels \ {c}
        BY <1>0, <2>1, <3>2
      <4> QED BY <1>0, <2>1, <2>3, <4>1 DEF FlagFresh
    <3> QED BY <3>1, <3>2
  <2> QED BY <2>2, <2>4
<1>4. CASE FlagExpires
  <2>1. /\ UNCHANGED <<runs, jobs>> /\ flag' = None
        /\ \A d \in Cancels : /\ cancels'[d].aims = cancels[d].aims
                              /\ cancels'[d].at \in {cancels[d].at, "lapsed"}
    BY <1>0, <1>4, ExpiryFrame
  <2>2. KillerOver' /\ NoStaleCancel'
    BY <1>0, <2>1 DEF KillerOver, NoStaleCancel
  <2>3. FlagFresh'
    BY <2>1 DEF FlagFresh
  <2> QED BY <1>0, <1>a, <2>2, <2>3 DEF FlagInv
<1>5. CASE UNCHANGED vars
  BY <1>0, <1>a, <1>5 DEF vars, FlagInv, FlagFresh, KillerOver, NoStaleCancel, Reach, Live
<1> QED BY <1>0, <1>a, <1>1, <1>2, <1>3, <1>4, <1>5 DEF Next, FlagInv

\* A job is cancelled only by a cancel() that set the flag after the job's run()
\* had cleared it (106-119, and 104-137 of celery_worker.py), with any number of
\* callers, and whatever fails.
THEOREM OnlyAimedAt == Spec => []NoStaleCancel
<1>1. Init => FlagInv
  BY InitType DEF Init, FlagInv, FlagFresh, KillerOver, NoStaleCancel, AimsLast
<1>2. FlagInv /\ [Next]_vars => FlagInv'
  BY NextFlag
<1>3. FlagInv => NoStaleCancel
  BY DEF FlagInv
<1> QED BY <1>1, <1>2, <1>3, PTL DEF Spec

-------------------------------------------------------------------------------
(* One execution at a time, if calls of run() do not overlap.              *)

\* At most one call is about to send a job, and then no job is live.
BusyAlone == \A q, r \in Runs : Busy(q) => ~ Live(r) /\ (Busy(r) => q = r)

\* A job that is live, or about to be sent, is one the status tells of.
StatusTells == \A r \in Runs : runs[r] = "send" \/ Live(r) => ~ Enqueues

CallerInv == TypeOK /\ BusyAlone /\ StatusTells /\ OneExecution

LEMMA NextCaller == CallerInv /\ OneCaller /\ [Next]_vars => CallerInv'
<1> SUFFICES ASSUME CallerInv, OneCaller, [Next]_vars
             PROVE  BusyAlone' /\ StatusTells' /\ OneExecution'
  BY NextType DEF CallerInv
<1>0. TypeOK /\ BusyAlone /\ StatusTells /\ OneExecution
  BY DEF CallerInv
<1>1. ASSUME NEW r \in Runs, Run(r)
      PROVE  BusyAlone' /\ StatusTells' /\ OneExecution'
  <2>1. CASE runs[r] = "new"
    <3>1. /\ UNCHANGED <<status, jobs>>
          /\ \A q \in Runs \ {r} : runs'[q] = runs[q]
          /\ runs'[r] \in {"clear", "over"}
          /\ runs'[r] = "clear" => Enqueues /\ MayCall(r)
      BY <1>0, <1>1, <2>1, RunFrame DEF Busy
    <3>2. runs'[r] = "clear" => \A q \in Runs : ~ Live(q) /\ ~ Busy(q)
      BY <1>0, <3>1 DEF StatusTells, MayCall, Busy
    <3>3. \A q \in Runs : Live(q)' <=> Live(q)
      BY <3>1 DEF Live
    <3>4. BusyAlone'
      BY <1>0, <3>1, <3>2, <3>3 DEF BusyAlone, Busy
    <3>5. StatusTells'
      BY <1>0, <3>1, <3>3 DEF StatusTells, Enqueues
    <3> QED BY <1>0, <3>3, <3>4, <3>5 DEF OneExecution
  <2>2. CASE runs[r] # "new"
    <3>1. /\ Busy(r)
          /\ \A q \in Runs \ {r} : runs'[q] = runs[q] /\ jobs'[q] = jobs[q]
      BY <1>0, <1>1, <2>2, RunFrame DEF Busy
    <3>2. \A q \in Runs : ~ Live(q) /\ (q # r => ~ Busy(q))
      BY <1>0, <3>1 DEF BusyAlone
    <3>3. \A q \in Runs \ {r} : ~ Live(q)' /\ ~ Busy(q)'
      BY <3>1, <3>2 DEF Live, Busy
    <3>4. Live(r)' => runs[r] = "send" /\ status' = status /\ ~ Busy(r)'
      BY <1>0, <1>1, <2>2, <3>2, RunFrame DEF Live, Busy
    <3>5. runs'[r] = "send" => status' = "pending"
      BY <1>0, <1>1, <2>2, RunFrame
    <3>6. BusyAlone' /\ OneExecution'
      BY <3>3, <3>4 DEF BusyAlone, OneExecution
    <3>7. runs[r] = "send" => ~ Enqueues
      BY <1>0 DEF StatusTells
    <3>8. StatusTells'
      <4> SUFFICES ASSUME NEW q \in Runs, runs'[q] = "send" \/ Live(q)'
                   PROVE  ~ Enqueues'
        BY DEF StatusTells
      <4>1. q = r
        BY <3>3 DEF Busy
      <4> QED BY <3>4, <3>5, <3>7, <4>1 DEF Enqueues
    <3> QED BY <3>6, <3>8
  <2> QED BY <2>1, <2>2
<1>2. ASSUME NEW r \in Runs, Job(r)
      PROVE  BusyAlone' /\ StatusTells' /\ OneExecution'
  <2>1. /\ runs' = runs /\ Live(r)
        /\ \A q \in Runs \ {r} : jobs'[q] = jobs[q]
        /\ \/ status' = status
           \/ status' = "running"
           \/ status' = "done" /\ jobs'[r].at = "over"
    BY <1>0, <1>2, JobFrame
  <2>2. \A q \in Runs : ~ Busy(q) /\ (q # r => ~ Live(q))
    BY <1>0, <2>1 DEF BusyAlone, OneExecution
  <2>3. \A q \in Runs : ~ Busy(q)' /\ (q # r => ~ Live(q)')
    BY <2>1, <2>2 DEF Busy, Live
  <2>4. BusyAlone' /\ OneExecution'
    BY <2>3 DEF BusyAlone, OneExecution
  <2>5. ~ Enqueues
    BY <1>0, <2>1 DEF StatusTells
  <2>6. StatusTells'
    <3> SUFFICES ASSUME NEW q \in Runs, runs'[q] = "send" \/ Live(q)'
                 PROVE  ~ Enqueues'
      BY DEF StatusTells
    <3>1. q = r /\ Live(r)'
      BY <2>3 DEF Busy
    <3> QED BY <2>1, <2>5, <3>1 DEF Enqueues, Live
  <2> QED BY <2>4, <2>6
<1>3. ASSUME NEW c \in Cancels, Cancel(c)
      PROVE  BusyAlone' /\ StatusTells' /\ OneExecution'
  <2>1. UNCHANGED <<status, runs, jobs>>
    BY <1>0, <1>3, CancelFrame
  <2> QED BY <1>0, <2>1 DEF BusyAlone, StatusTells, OneExecution, Busy, Live, Enqueues
<1>4. CASE FlagExpires \/ UNCHANGED vars
  BY <1>0, <1>4 DEF FlagExpires, vars, BusyAlone, StatusTells, OneExecution,
     Busy, Live, Enqueues
<1> QED BY <1>1, <1>2, <1>3, <1>4 DEF Next

LEMMA CallerInvariant == OneCaller => (Spec => []CallerInv)
<1> SUFFICES ASSUME OneCaller PROVE Spec => []CallerInv
  OBVIOUS
<1>1. Init => CallerInv
  BY InitType DEF Init, CallerInv, BusyAlone, StatusTells, OneExecution, Busy, Live
<1>2. CallerInv /\ [Next]_vars => CallerInv'
  BY NextCaller
<1> QED BY <1>1, <1>2, PTL DEF Spec

\* One worker executes the task at a time, if no two calls of run() overlap:
\* they may be cut short at any await, and workers may die (106-119).
THEOREM ExecutedOnce == OneCaller => (Spec => []OneExecution)
<1>1. CallerInv => OneExecution
  BY DEF CallerInv
<1> QED BY <1>1, CallerInvariant, PTL

\* A task that says it is done has no job left, under the same condition
\* (is_done, 99-104, and the finally block of the worker, 130-133).
THEOREM DoneIsFinal == OneCaller => (Spec => []DoneMeansDone)
<1>1. CallerInv => DoneMeansDone
  BY DEF CallerInv, StatusTells, DoneMeansDone, Enqueues
<1> QED BY <1>1, CallerInvariant, PTL

-------------------------------------------------------------------------------
(* A task that says it is active has a job, or nothing ever mends it.      *)

\* A worker leaves its job with the status written, or for good.
LEMMA JobLeaves ==
    ASSUME TypeOK, NEW r \in Runs, Job(r)
    PROVE  Live(r)' \/ status' = "done" \/ jobs'[r].at = "gone"
<1>1. jobs \in [Runs -> JobRecord]
  BY DEF TypeOK, JobRecord
<1>2. CASE Pick(r) \/ AgentEnds(r) \/ CancelledEnds(r) \/ WriteRunning(r) \/ ClearFlag(r)
  BY <1>1, <1>2
  DEF Pick, AgentEnds, CancelledEnds, WriteRunning, ClearFlag, JobMoves, Live, JobRecord
<1>3. CASE Watch(r)
  BY <1>1, <1>3 DEF Watch, Live, JobRecord
<1>4. CASE WriteDone(r)
  BY <1>4 DEF WriteDone
<1>5. CASE JobGone(r)
  BY <1>1, <1>5 DEF JobGone, JobRecord
<1> QED BY <1>2, <1>3, <1>4, <1>5 DEF Job, Supervise

ActiveInv == TypeOK /\ ActiveHasJob

\* Who answers for an active status.
Answers(r) == runs[r] \in {"send", "cut"} \/ Live(r) \/ jobs[r].at = "gone"

LEMMA NextActive == ActiveInv /\ [Next]_vars => ActiveInv'
<1> SUFFICES ASSUME ActiveInv, [Next]_vars PROVE ActiveHasJob'
  BY NextType DEF ActiveInv
<1>0. TypeOK /\ (status \in {"pending", "running"} => \E r \in Runs : Answers(r))
  BY DEF ActiveInv, ActiveHasJob, Orphaned, Answers
<1> SUFFICES ASSUME status' \in {"pending", "running"}
             PROVE  \E q \in Runs : Answers(q)'
  BY DEF ActiveHasJob, Orphaned, Answers
<1>1. ASSUME NEW r \in Runs, Run(r) PROVE \E q \in Runs : Answers(q)'
  <2>1. CASE RunFails(r)
    <3>1. status' = status /\ jobs' = jobs /\ (runs[r] = "send" => runs'[r] = "cut")
      BY <1>0, <2>1 DEF RunFails, RunTo, TypeOK
    <3>2. \A q \in Runs \ {r} : runs'[q] = runs[q]
      BY <1>0, <1>1, RunFrame
    <3>3. runs[r] \in {"clear", "write", "send"}
      BY <2>1 DEF RunFails
    <3>4. PICK q \in Runs : Answers(q)
      BY <1>0, <3>1
    <3> QED BY <3>1, <3>2, <3>3, <3>4 DEF Answers, Live
  <2>2. CASE RunWrite(r)
    BY <1>0, <2>2 DEF RunWrite, RunTo, TypeOK, Answers
  <2>3. CASE RunSend(r)
    BY <1>0, <2>3 DEF RunSend, Live, TypeOK, Answers
  <2>4. CASE RunRead(r) \/ RunClear(r)
    <3>1. status' = status /\ jobs' = jobs /\ runs[r] \notin {"send", "cut"}
      BY <2>4 DEF RunRead, RunClear
    <3>2. \A q \in Runs \ {r} : runs'[q] = runs[q]
      BY <1>0, <1>1, RunFrame
    <3>3. PICK q \in Runs : Answers(q)
      BY <1>0, <3>1
    <3> QED BY <3>1, <3>2, <3>3 DEF Answers, Live
  <2> QED BY <1>1, <2>1, <2>2, <2>3, <2>4 DEF Run
<1>2. ASSUME NEW r \in Runs, Job(r) PROVE \E q \in Runs : Answers(q)'
  BY <1>0, <1>2, JobLeaves DEF Answers
<1>3. ASSUME UNCHANGED <<status, runs, jobs>>
      PROVE  \E q \in Runs : Answers(q)'
  BY <1>0, <1>3 DEF Answers, Live
<1>4. ASSUME NEW c \in Cancels, Cancel(c) PROVE UNCHANGED <<status, runs, jobs>>
  BY <1>0, <1>4, CancelFrame
<1>5. CASE FlagExpires \/ UNCHANGED vars
  BY <1>3, <1>5 DEF FlagExpires, vars
<1> QED BY <1>1, <1>2, <1>3, <1>4, <1>5 DEF Next

\* A task that says it is pending or running has a job, or is about to get one,
\* unless a call of run() was cut short between the status and the job, or a job
\* is gone without writing DONE: for any number of callers at once, whatever the
\* cancellations (106-119, and 104-137 of celery_worker.py).
THEOREM ActiveIsExecuted == Spec => []ActiveHasJob
<1>1. Init => ActiveInv
  BY InitType DEF Init, ActiveInv, ActiveHasJob
<1>2. ActiveInv /\ [Next]_vars => ActiveInv'
  BY NextActive
<1>3. ActiveInv => ActiveHasJob
  BY DEF ActiveInv
<1> QED BY <1>1, <1>2, <1>3, PTL DEF Spec

\* Every variable keeps its type, and a job is sent by the last step of its call
\* of run() (118).
THEOREM TypeCorrect == Spec => []TypeOK
<1>1. Init => TypeOK
  BY InitType
<1>2. TypeOK /\ [Next]_vars => TypeOK'
  BY NextType
<1> QED BY <1>1, <1>2, PTL DEF Spec

-------------------------------------------------------------------------------
(* Every cancel() takes: the argument. A job that is aimed at has at most  *)
(* eight steps left until it is over, every step of its run() and of its   *)
(* worker leaves it fewer, and none gives it more. It is never stuck: the  *)
(* flag that lets its watcher act is there for as long as it is needed, or *)
(* has expired.                                                            *)

Aimed(r) == \E c \in Cancels : r \in cancels[c].aims

Freed(r) == Finished(r) \/ Lapsed(r)

\* A job that is aimed at will be sent, and its flag is set until it has been seen.
Waits(r) == /\ runs[r] \in {"write", "send"} \/ jobs[r].at # "unsent"
            /\ jobs[r].at \in {"unsent", "queued", "begun", "running"} => flag # None

FlagWaits == \A r \in Runs : Aimed(r) => Freed(r) \/ Waits(r)

TakesInv == CallerInv /\ FlagInv /\ FlagWaits

\* A job that is not over and not lapsed is about to be sent or in a worker.
LEMMA NotFreed ==
    ASSUME NEW r \in Runs
    PROVE  TypeOK /\ Waits(r) /\ ~ Freed(r) => Live(r) \/ runs[r] \in {"write", "send"}
BY DEF TypeOK, Waits, Freed, Finished, Live

\* What has ended, and what has lapsed, stays so.
LEMMA FreedKept ==
    ASSUME TypeOK, [Next]_vars, NEW r \in Runs, Freed(r)
    PROVE  Freed(r)'
<1>0. /\ runs \in [Runs -> RunPlaces] /\ jobs \in [Runs -> JobRecord]
      /\ \A q \in Runs : jobs[q].at # "unsent" => runs[q] = "over"
  BY DEF TypeOK, JobRecord
<1>1. ASSUME NEW q \in Runs, Run(q)
      PROVE  cancels' = cancels /\ (Finished(r) => Finished(r)')
  <2>1. /\ cancels' = cancels /\ (q # r => runs'[r] = runs[r] /\ jobs'[r] = jobs[r])
        /\ runs[q] \in {"new", "clear", "write", "send"}
    BY <1>1, RunFrame DEF Busy
  <2> QED BY <1>0, <2>1 DEF Finished
<1>2. ASSUME NEW q \in Runs, Job(q)
      PROVE  cancels' = cancels /\ (Finished(r) => Finished(r)')
  <2>1. /\ cancels' = cancels /\ runs' = runs /\ Live(q)
        /\ (q # r => jobs'[r] = jobs[r])
    BY <1>2, JobFrame
  <2> QED BY <2>1 DEF Finished, Live
<1>3. ASSUME NEW c \in Cancels, Cancel(c)
      PROVE  UNCHANGED <<runs, jobs>> /\ (Lapsed(r) => Lapsed(r)')
  <2>1. /\ UNCHANGED <<runs, jobs>> /\ cancels[c].at \notin {"over", "lapsed"}
        /\ \A d \in Cancels \ {c} : cancels'[d] = cancels[d]
    BY <1>3, CancelFrame
  <2> QED BY <2>1 DEF Lapsed
<1>4. CASE FlagExpires
  <2>1. /\ UNCHANGED <<runs, jobs>>
        /\ cancels'[flag] = [at |-> "lapsed", aims |-> cancels[flag].aims]
        /\ \A d \in Cancels \ {flag} : cancels'[d] = cancels[d]
    BY <1>4, ExpiryFrame
  <2>2. \A d \in Cancels : /\ cancels'[d].aims = cancels[d].aims
                           /\ cancels[d].at = "lapsed" => cancels'[d].at = "lapsed"
    BY <2>1
  <2>3. (Finished(r) => Finished(r)') /\ (Lapsed(r) => Lapsed(r)')
    BY <2>1, <2>2 DEF Finished, Lapsed
  <2> QED BY <2>3 DEF Freed
<1>5. CASE UNCHANGED vars
  BY <1>5 DEF vars, Freed, Finished, Lapsed
<1>6. UNCHANGED <<runs, jobs>> => (Finished(r) => Finished(r)')
  BY DEF Finished
<1>7. UNCHANGED cancels => (Lapsed(r) => Lapsed(r)')
  BY DEF Lapsed
<1> QED BY <1>1, <1>2, <1>3, <1>4, <1>5, <1>6, <1>7 DEF Next, Freed

LEMMA NextTakes == TakesInv /\ OneCaller /\ [Next]_vars => TakesInv'
<1> SUFFICES ASSUME TakesInv, OneCaller, [Next]_vars PROVE FlagWaits'
  BY NextCaller, NextFlag DEF TakesInv
<1>0. /\ TypeOK /\ BusyAlone /\ OneExecution /\ FlagWaits /\ FlagFresh
      /\ None \notin Cancels
      /\ cancels \in [Cancels -> CancelRecord] /\ runs \in [Runs -> RunPlaces]
      /\ \A r \in Runs : jobs[r].at # "unsent" => runs[r] = "over"
  BY ConstantsAssumption DEF TakesInv, CallerInv, FlagInv, TypeOK, CancelRecord
<1> SUFFICES ASSUME NEW r \in Runs, Aimed(r)', ~ Freed(r)'
             PROVE  Waits(r)'
  BY DEF FlagWaits
<1>f. ~ Freed(r)
  BY <1>0, FreedKept
<1>a. Aimed(r) => Waits(r) /\ (Live(r) \/ runs[r] \in {"write", "send"})
  BY <1>0, <1>f, NotFreed DEF FlagWaits
<1>1. ASSUME NEW q \in Runs, Run(q) PROVE Waits(r)'
  <2>1. cancels' = cancels /\ Aimed(r)
    BY <1>0, <1>1, RunFrame DEF Aimed
  <2>2. CASE q = r
    <3>1. runs[r] \in {"write", "send"} /\ jobs[r].at = "unsent"
      BY <1>0, <1>1, <1>a, <2>1, <2>2, RunFrame DEF Live, Busy
    <3>2. ~ RunFails(r) /\ ~ RunRead(r) /\ ~ RunClear(r)
      <4>1. ~ RunFails(r)
        <5>1. RunFails(r) => jobs' = jobs /\ runs'[r] \in {"over", "cut"}
          BY <1>0, <3>1 DEF RunFails, RunTo
        <5> QED BY <3>1, <5>1 DEF Freed, Finished
      <4> QED BY <3>1, <4>1 DEF RunRead, RunClear
    <3>3. CASE RunWrite(r)
      BY <1>0, <1>a, <2>1, <3>1, <3>3 DEF RunWrite, RunTo, Waits
    <3>4. CASE RunSend(r)
      <4>1. jobs'[r].at = "queued" /\ flag' = flag
        BY <1>0, <3>4 DEF RunSend, TypeOK
      <4> QED BY <1>a, <2>1, <3>1, <4>1 DEF Waits
    <3> QED BY <1>1, <2>2, <3>2, <3>3, <3>4 DEF Run
  <2>3. CASE q # r
    <3>1. runs'[r] = runs[r] /\ jobs'[r] = jobs[r]
      BY <1>0, <1>1, <2>3, RunFrame
    <3>2. flag' = flag
      <4>1. flag' # flag => runs[q] = "clear"
        BY <1>0, <1>1, RunFrame
      <4>2. runs[q] = "clear" => ~ Live(r) /\ ~ Busy(r)
        BY <1>0, <2>3 DEF BusyAlone, Busy
      <4> QED BY <1>a, <2>1, <4>1, <4>2 DEF Busy
    <3> QED BY <1>a, <2>1, <3>1, <3>2 DEF Waits
  <2> QED BY <2>2, <2>3
<1>2. ASSUME NEW q \in Runs, Job(q) PROVE Waits(r)'
  <2>1. /\ cancels' = cancels /\ runs' = runs /\ Aimed(r) /\ Live(q)
        /\ jobs'[q].at # "unsent"
        /\ \A p \in Runs \ {q} : jobs'[p] = jobs[p]
    BY <1>0, <1>2, JobFrame DEF Aimed
  <2>2. CASE ClearFlag(q)
    <3>1. jobs'[q].at = "cleared"
      BY <1>0, <2>2 DEF ClearFlag, JobMoves, TypeOK
    <3>2. q # r => ~ Live(r) /\ ~ Busy(r)
      BY <1>0, <2>1 DEF OneExecution, BusyAlone
    <3>3. q = r
      BY <1>a, <2>1, <3>2 DEF Busy
    <3> QED BY <3>1, <3>3 DEF Waits
  <2>3. CASE ~ ClearFlag(q)
    <3>1. flag' = flag
      BY <1>2, <2>3 DEF Job, Supervise, Pick, WriteRunning, Watch, CancelledEnds,
         WriteDone, AgentEnds, JobGone
    <3>2. jobs'[q].at \in {"unsent", "queued", "begun", "running"}
             => jobs[q].at \in {"queued", "begun"}
      <4>1. jobs \in [Runs -> JobRecord]
        BY <1>0 DEF TypeOK, JobRecord
      <4>2. CASE Pick(q) \/ WriteRunning(q) \/ CancelledEnds(q) \/ WriteDone(q)
                 \/ AgentEnds(q)
        BY <4>1, <4>2 DEF Pick, WriteRunning, CancelledEnds, WriteDone, AgentEnds, JobMoves,
           JobRecord
      <4>3. CASE Watch(q) \/ JobGone(q)
        BY <4>1, <4>3 DEF Watch, JobGone, JobRecord
      <4> QED BY <1>2, <2>3, <4>2, <4>3 DEF Job, Supervise
    <3> QED BY <1>a, <2>1, <3>1, <3>2 DEF Waits
  <2> QED BY <2>2, <2>3
<1>3. ASSUME NEW c \in Cancels, Cancel(c) PROVE Waits(r)'
  <2>1. UNCHANGED <<status, runs, jobs>> /\ flag' \in {flag, c} /\ (flag' = c => flag' # None)
    BY <1>0, <1>3, CancelFrame
  <2>2. CASE Aimed(r)
    BY <1>0, <1>a, <2>1, <2>2 DEF Waits
  <2>3. CASE ~ Aimed(r)
    <3>1. CancelSet(c)
      <4>1. CASE CancelRead(c)
        <5>1. \A d \in Cancels : cancels'[d].aims = cancels[d].aims
          BY <1>0, <4>1 DEF CancelRead, CancelRecord
        <5> QED BY <2>3, <5>1 DEF Aimed
      <4> QED BY <1>3, <4>1 DEF Cancel
    <3>2. /\ flag' = c
          /\ cancels'[c].aims = {q \in Runs : runs[q] \in {"write", "send"} \/ Live(q)}
          /\ \A d \in Cancels \ {c} : cancels'[d] = cancels[d]
      BY <1>0, <3>1 DEF CancelSet, CancelRecord
    <3>3. runs[r] \in {"write", "send"} \/ Live(r)
      BY <2>3, <3>2 DEF Aimed
    <3> QED BY <1>0, <2>1, <3>2, <3>3 DEF Live, Waits
  <2> QED BY <2>2, <2>3
<1>4. CASE FlagExpires
  <2>1. /\ UNCHANGED <<runs, jobs>> /\ flag # None /\ flag \in Cancels
        /\ cancels'[flag] = [at |-> "lapsed", aims |-> cancels[flag].aims]
        /\ \A d \in Cancels : cancels'[d].aims = cancels[d].aims
    BY <1>0, <1>4, ExpiryFrame DEF FlagExpires
  <2>2. Reach(r)
    BY <1>a, <2>1 DEF Aimed, Reach
  <2>3. r \in cancels[flag].aims
    BY <1>0, <2>1, <2>2 DEF FlagFresh
  <2> QED BY <2>1, <2>3 DEF Freed, Lapsed
<1>5. CASE UNCHANGED vars
  BY <1>a, <1>5 DEF vars, Aimed, Waits
<1> QED BY <1>1, <1>2, <1>3, <1>4, <1>5 DEF Next

\* The steps that are left to the job of r.
Left(r) == IF Freed(r) THEN 0
           ELSE IF jobs[r].at = "unsent" THEN IF runs[r] = "send" THEN 7 ELSE 8
           ELSE IF jobs[r].at = "queued" THEN 6
           ELSE IF jobs[r].at = "begun" THEN 5
           ELSE IF jobs[r].at = "running" THEN 4
           ELSE IF jobs[r].at = "cancelled" THEN 3
           ELSE IF jobs[r].at = "ended" THEN 2
           ELSE 1

LEMMA LeftMade == ASSUME NEW r \in Runs
                  PROVE  TypeOK => Left(r) \in 0 .. 8 /\ (Left(r) <= 0 <=> Freed(r))
BY DEF TypeOK, JobPlaces, Left

\* run() sends, and the worker goes on, when they can.
CanRun(r) == runs[r] \in {"clear", "write", "send"}
CanSupervise(r) == \/ jobs[r].at \in {"queued", "begun", "cancelled", "ended", "cleared"}
                   \/ jobs[r].at = "running" /\ flag # None

Sending(r) == RunClear(r) \/ RunWrite(r) \/ RunSend(r)

\* What FairSpec says, with the states in which each can act written out instead
\* of ENABLED.
SendsFairly(r) == []<> ~ CanRun(r) \/ []<><<Sending(r)>>_vars
ServedFairly(r) == []<> ~ CanSupervise(r) \/ []<><<Supervise(r)>>_vars

LEMMA LeftFalls ==
    ASSUME NEW r \in Runs
    PROVE  TakesInv /\ OneCaller /\ Aimed(r) /\ [Next]_vars =>
              /\ Aimed(r)'
              /\ Left(r)' <= Left(r)
              /\ Left(r) > 0 /\ (Sending(r) \/ Supervise(r)) => Left(r)' < Left(r)
<1> SUFFICES ASSUME TakesInv, OneCaller, Aimed(r), [Next]_vars
             PROVE  /\ Aimed(r)'
                    /\ Left(r)' <= Left(r)
                    /\ Left(r) > 0 /\ (Sending(r) \/ Supervise(r)) => Left(r)' < Left(r)
  OBVIOUS
<1>0. /\ TypeOK /\ (Freed(r) \/ Waits(r))
      /\ cancels \in [Cancels -> CancelRecord]
      /\ runs \in [Runs -> RunPlaces] /\ jobs \in [Runs -> JobRecord]
      /\ \A q \in Runs : jobs[q].at # "unsent" => runs[q] = "over"
      /\ Left(r) \in 0 .. 8 /\ (Left(r) <= 0 <=> Freed(r))
      /\ Left(r)' \in 0 .. 8 /\ (Left(r)' <= 0 <=> Freed(r)')
  <2>1. TypeOK /\ (Freed(r) \/ Waits(r))
    BY DEF TakesInv, CallerInv, FlagWaits
  <2>2. TypeOK'
    BY <2>1, NextType
  <2>3. (TypeOK => Left(r) \in 0 .. 8 /\ (Left(r) <= 0 <=> Freed(r)))'
    BY LeftMade, PTL
  <2> QED BY <2>1, <2>2, <2>3, LeftMade DEF TypeOK, CancelRecord, JobRecord
<1>1. Aimed(r)'
  <2>1. PICK c \in Cancels : r \in cancels[c].aims
    BY DEF Aimed
  <2>2. ASSUME NEW q \in Runs, Run(q) \/ Job(q) PROVE cancels' = cancels
    BY <1>0, <2>2, RunFrame, JobFrame
  <2>a. cancels[c].at \in {"over", "lapsed"}
    BY <2>1 DEF TakesInv, FlagInv, AimsLast
  <2>3. ASSUME NEW d \in Cancels, Cancel(d) PROVE Aimed(r)'
    BY <1>0, <2>1, <2>a, <2>3, CancelFrame DEF Aimed
  <2>4. CASE FlagExpires
    BY <1>0, <2>1, <2>4, ExpiryFrame DEF Aimed
  <2> QED BY <2>1, <2>2, <2>3, <2>4 DEF Next, vars, Aimed
<1>2. CASE Freed(r)
  <2>1. Freed(r)'
    BY <1>0, <1>2, FreedKept
  <2> QED BY <1>0, <1>1, <1>2, <2>1
<1>3. CASE Freed(r)'
  BY <1>0, <1>1, <1>3
<1>4. CASE ~ Freed(r) /\ ~ Freed(r)'
  <2>1. Waits(r)
    BY <1>0, <1>4
  <2>2. ASSUME NEW q \in Runs, Run(q)
        PROVE  Left(r)' <= Left(r) /\ (q = r => Left(r)' < Left(r))
    <3>1. CASE q # r
      <4>1. runs'[r] = runs[r] /\ jobs'[r] = jobs[r]
        BY <1>0, <2>2, <3>1, RunFrame
      <4> QED BY <1>0, <1>4, <3>1, <4>1 DEF Left
    <3>2. CASE q = r
      <4>1. runs[r] \in {"write", "send"} /\ jobs[r].at = "unsent"
        BY <1>0, <2>1, <2>2, <3>2, RunFrame DEF Waits, Busy
      <4>2. ~ RunFails(r)
        <5>1. RunFails(r) => jobs' = jobs /\ runs'[r] \in {"over", "cut"}
          BY <1>0, <4>1 DEF RunFails, RunTo
        <5> QED BY <1>4, <4>1, <5>1 DEF Freed, Finished
      <4>3. CASE RunWrite(r)
        <5>1. runs[r] = "write" /\ runs'[r] = "send" /\ jobs' = jobs
          BY <1>0, <4>3 DEF RunWrite, RunTo
        <5> QED BY <1>4, <3>2, <4>1, <5>1 DEF Left
      <4>4. CASE RunSend(r)
        <5>1. jobs'[r].at = "queued"
          BY <1>0, <4>4 DEF RunSend, JobRecord
        <5> QED BY <1>4, <3>2, <4>1, <5>1 DEF Left
      <4>5. ~ RunRead(r) /\ ~ RunClear(r)
        BY <4>1 DEF RunRead, RunClear
      <4> QED BY <2>2, <3>2, <4>2, <4>3, <4>4, <4>5 DEF Run
    <3> QED BY <3>1, <3>2
  <2>3. ASSUME NEW q \in Runs, Job(q)
        PROVE  Left(r)' <= Left(r) /\ (q = r => Left(r)' < Left(r))
    <3>1. CASE q # r
      <4>1. runs'[r] = runs[r] /\ jobs'[r] = jobs[r]
        BY <1>0, <2>3, <3>1, JobFrame
      <4> QED BY <1>0, <1>4, <3>1, <4>1 DEF Left
    <3>2. CASE q = r
      <4>1. CASE Pick(r) \/ WriteRunning(r) \/ CancelledEnds(r)
        BY <1>0, <1>4, <3>2, <4>1 DEF Pick, WriteRunning, CancelledEnds, JobMoves,
           JobRecord, Left
      <4>2. CASE AgentEnds(r) \/ ClearFlag(r)
        BY <1>0, <1>4, <3>2, <4>2 DEF AgentEnds, ClearFlag, JobMoves, JobRecord, Left
      <4>3. CASE Watch(r)
        BY <1>0, <1>4, <3>2, <4>3 DEF Watch, JobRecord, Left
      <4>4. ~ JobGone(r) /\ ~ WriteDone(r)
        <5>1. JobGone(r) \/ WriteDone(r) => jobs'[r].at \in {"over", "gone"}
          BY <1>0 DEF JobGone, WriteDone, JobMoves, JobRecord
        <5> QED BY <1>4, <5>1 DEF Freed, Finished
      <4> QED BY <2>3, <3>2, <4>1, <4>2, <4>3, <4>4 DEF Job, Supervise
    <3> QED BY <3>1, <3>2
  <2>4. ASSUME UNCHANGED <<runs, jobs>> PROVE Left(r)' = Left(r)
    BY <1>4, <2>4 DEF Left
  <2>5. ASSUME NEW c \in Cancels, Cancel(c) PROVE UNCHANGED <<runs, jobs>>
    BY <1>0, <2>5, CancelFrame
  <2>6. Left(r)' <= Left(r)
    BY <1>0, <2>2, <2>3, <2>4, <2>5 DEF Next, FlagExpires, vars
  <2>7. (Sending(r) => Run(r)) /\ (Supervise(r) => Job(r))
    BY DEF Sending, Run, Job
  <2> QED BY <1>1, <2>2, <2>3, <2>6, <2>7
<1> QED BY <1>2, <1>3, <1>4

\* A job that is aimed at and not over is never stuck: its run() can go on until
\* it is sent, and then its worker can.
LEMMA NeverStuck ==
    ASSUME NEW r \in Runs
    PROVE  TakesInv /\ Aimed(r) /\ Left(r) > 0 =>
              /\ Left(r) >= 7 => CanRun(r)
              /\ Left(r) < 7 => CanSupervise(r)
<1> SUFFICES ASSUME TakesInv, Aimed(r), Left(r) > 0
             PROVE  /\ Left(r) >= 7 => CanRun(r)
                    /\ Left(r) < 7 => CanSupervise(r)
  OBVIOUS
<1>1. TypeOK /\ ~ Freed(r) /\ Waits(r)
  BY LeftMade DEF TakesInv, CallerInv, FlagWaits, Left
<1>2. jobs[r].at \in JobPlaces \ {"over", "gone"}
  BY <1>1 DEF TypeOK, Freed, Finished
<1> QED BY <1>1, <1>2 DEF JobPlaces, Waits, CanRun, CanSupervise, Left

LEMMA TakesInvariant == OneCaller => (Spec => []TakesInv)
<1> SUFFICES ASSUME OneCaller PROVE Spec => []TakesInv
  OBVIOUS
<1>1. Init => TakesInv
  BY InitType DEF Init, TakesInv, CallerInv, BusyAlone, StatusTells, OneExecution,
     Busy, Live, FlagWaits, Aimed, FlagInv, FlagFresh, KillerOver, NoStaleCancel, AimsLast
<1>2. TakesInv /\ [Next]_vars => TakesInv'
  BY NextTakes
<1> QED BY <1>1, <1>2, PTL DEF Spec

Within(r, n) == Aimed(r) /\ Left(r) <= n

\* One step fewer: kept by every step, and reached by the one whose turn it is.
LEMMA OneFewer ==
    ASSUME NEW r \in Runs, NEW n \in 0 .. 8, NEW m \in 0 .. 8, m = n - 1, OneCaller
    PROVE  /\ TakesInv /\ Within(r, n) /\ [Next]_vars =>
                 Within(r, n)' /\ (Sending(r) \/ Supervise(r) => Within(r, m)')
           /\ TakesInv /\ Within(r, n) /\ ~ Within(r, m) =>
                 IF n >= 7 THEN CanRun(r) ELSE CanSupervise(r)
<1>0. TypeOK => Left(r) \in 0 .. 8
  BY LeftMade
<1>1. (TypeOK => Left(r) \in 0 .. 8)'
  BY <1>0, PTL
<1>2. TakesInv => TypeOK
  BY DEF TakesInv, CallerInv
<1>3. ASSUME TakesInv, Within(r, n), [Next]_vars
      PROVE  Within(r, n)' /\ (Sending(r) \/ Supervise(r) => Within(r, m)')
  <2>1. Left(r) \in 0 .. 8 /\ Left(r)' \in 0 .. 8
    BY <1>0, <1>1, <1>2, <1>3, NextType
  <2>2. /\ Aimed(r)' /\ Left(r)' <= Left(r)
        /\ Left(r) > 0 /\ (Sending(r) \/ Supervise(r)) => Left(r)' < Left(r)
    BY <1>3, LeftFalls DEF Within
  <2> QED BY <1>3, <2>1, <2>2 DEF Within
<1>4. ASSUME TakesInv, Within(r, n), ~ Within(r, m)
      PROVE  IF n >= 7 THEN CanRun(r) ELSE CanSupervise(r)
  <2>1. Left(r) = n
    BY <1>0, <1>2, <1>4 DEF Within
  <2> QED BY <1>4, <2>1, NeverStuck DEF Within
<1> QED BY <1>3, <1>4

\* Every job that cancel() is for ends, even if its agent never would, wherever
\* cancel(), run() and the job itself have got to (104-111, and 104-137 of
\* celery_worker.py), if calls of run() do not overlap and the job does not wait
\* until the flag expires. Calls of run() may be cut short and workers may die.
THEOREM CancelsTake ==
    OneCaller =>
       (Spec /\ (\A r \in Runs : SendsFairly(r) /\ ServedFairly(r)) => CancelTakes)
<1> SUFFICES ASSUME OneCaller, NEW c \in Cancels, NEW r \in Runs
             PROVE  Spec /\ (\A q \in Runs : SendsFairly(q) /\ ServedFairly(q)) =>
                       ((r \in cancels[c].aims) ~> (Finished(r) \/ Lapsed(r)))
  BY DEF CancelTakes
<1>1. (\A q \in Runs : SendsFairly(q) /\ ServedFairly(q)) => SendsFairly(r) /\ ServedFairly(r)
  OBVIOUS
<1>2. TakesInv /\ [Next]_vars =>
         /\ Within(r, 8) => Within(r, 8)' /\ (Sending(r) \/ Supervise(r) => Within(r, 7)')
         /\ Within(r, 7) => Within(r, 7)' /\ (Sending(r) \/ Supervise(r) => Within(r, 6)')
         /\ Within(r, 6) => Within(r, 6)' /\ (Sending(r) \/ Supervise(r) => Within(r, 5)')
         /\ Within(r, 5) => Within(r, 5)' /\ (Sending(r) \/ Supervise(r) => Within(r, 4)')
         /\ Within(r, 4) => Within(r, 4)' /\ (Sending(r) \/ Supervise(r) => Within(r, 3)')
         /\ Within(r, 3) => Within(r, 3)' /\ (Sending(r) \/ Supervise(r) => Within(r, 2)')
         /\ Within(r, 2) => Within(r, 2)' /\ (Sending(r) \/ Supervise(r) => Within(r, 1)')
         /\ Within(r, 1) => Within(r, 1)' /\ (Sending(r) \/ Supervise(r) => Within(r, 0)')
  BY OneFewer
<1>3. TakesInv =>
         /\ Within(r, 8) /\ ~ Within(r, 7) => CanRun(r)
         /\ Within(r, 7) /\ ~ Within(r, 6) => CanRun(r)
         /\ Within(r, 6) /\ ~ Within(r, 5) => CanSupervise(r)
         /\ Within(r, 5) /\ ~ Within(r, 4) => CanSupervise(r)
         /\ Within(r, 4) /\ ~ Within(r, 3) => CanSupervise(r)
         /\ Within(r, 3) /\ ~ Within(r, 2) => CanSupervise(r)
         /\ Within(r, 2) /\ ~ Within(r, 1) => CanSupervise(r)
         /\ Within(r, 1) /\ ~ Within(r, 0) => CanSupervise(r)
  BY OneFewer
<1>4. TakesInv /\ r \in cancels[c].aims => Within(r, 8)
  BY LeftMade DEF TakesInv, CallerInv, Aimed, Within
<1>5. TakesInv /\ Within(r, 0) => Finished(r) \/ Lapsed(r)
  BY LeftMade DEF TakesInv, CallerInv, Within, Freed
<1>6. Spec => []TakesInv
  BY TakesInvariant
<1> QED BY <1>1, <1>2, <1>3, <1>4, <1>5, <1>6, PTL DEF Spec, SendsFairly, ServedFairly

\* Weak fairness says the same of each, once it is known that the states written
\* out are those in which it is enabled.
Readiness == \A r \in Runs : /\ CanRun(r) <=> ENABLED <<Sending(r)>>_vars
                             /\ CanSupervise(r) <=> ENABLED <<Supervise(r)>>_vars

LEMMA FairMeansFairly ==
    ASSUME NEW r \in Runs
    PROVE  Fairness(r) /\ []Readiness => SendsFairly(r) /\ ServedFairly(r)
<1>1. Readiness => /\ CanRun(r) <=> ENABLED <<RunClear(r) \/ RunWrite(r) \/ RunSend(r)>>_vars
                   /\ CanSupervise(r) <=> ENABLED <<Supervise(r)>>_vars
  BY DEF Readiness, Sending
<1> QED BY <1>1, PTL DEF Fairness, SendsFairly, ServedFairly, Sending

\* The same of FairSpec, which TLC checks it of: the only fact taken from TLC is
\* in which states its two actions are enabled.
COROLLARY CancelsTakeFairly == OneCaller => (FairSpec /\ []Readiness => CancelTakes)
<1>1. FairSpec /\ []Readiness => Spec /\ \A r \in Runs : SendsFairly(r) /\ ServedFairly(r)
  BY FairMeansFairly DEF FairSpec
<1> QED BY <1>1, CancelsTake
===============================================================================
