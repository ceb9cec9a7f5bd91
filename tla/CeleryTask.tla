------------------------------ MODULE CeleryTask ------------------------------
(***************************************************************************)
(* One task of the Celery backend (celery_task.py, celery_worker.py): any  *)
(* API process may run or cancel it, a worker process executes it, and all *)
(* they share are two keys in Redis, its metadata and its cancel flag.     *)
(*                                                                         *)
(* An execution (a Celery job) is named by the call of run() that sent it. *)
(* A flag is named by the call of cancel() that set it.                    *)
(***************************************************************************)
EXTENDS Naturals, FiniteSets

CONSTANTS Runs,       \* the calls of run()
          Cancels,    \* the calls of cancel()
          None,
          OneCaller   \* whether calls of run() never overlap

ASSUME ConstantsAssumption == /\ None \notin Cancels
                              /\ OneCaller \in BOOLEAN

VARIABLES status,   \* the status in task:meta:{id}; "none" without the key
          flag,     \* task:cancel:{id}: None, or who set it
          runs,     \* per call of run() where it is
          jobs,     \* per job where it is, and whose flag cancelled it
          cancels   \* per call of cancel() where it is, and the jobs it is for

vars == <<status, flag, runs, jobs, cancels>>

Statuses == {"none", "pending", "running", "done"}
\* "cut": it failed between the status and the job that the status tells of.
RunPlaces == {"new", "clear", "write", "send", "over", "cut"}
\* "gone": it ended without a word.
JobPlaces == {"unsent", "queued", "begun", "running", "cancelled",
              "ended", "cleared", "over", "gone"}
\* "lapsed": the flag expired before anybody cleared it.
CancelPlaces == {"new", "set", "over", "lapsed"}

TypeOK == /\ status \in Statuses
          /\ flag \in Cancels \cup {None}
          /\ runs \in [Runs -> RunPlaces]
          /\ jobs \in [Runs -> [at : JobPlaces, by : Cancels \cup {None}]]
          /\ cancels \in [Cancels -> [at : CancelPlaces, aims : SUBSET Runs]]
          /\ \A r \in Runs : jobs[r].at # "unsent" => runs[r] = "over"

Init == /\ status = "none"
        /\ flag = None
        /\ runs = [r \in Runs |-> "new"]
        /\ jobs = [r \in Runs |-> [at |-> "unsent", by |-> None]]
        /\ cancels = [c \in Cancels |-> [at |-> "new", aims |-> {}]]

\* The job is in the broker's queue or in a worker.
Live(r) == jobs[r].at \notin {"unsent", "over", "gone"}

-------------------------------------------------------------------------------
(* run(), in an API process.                                               *)

RunTo(r, place) == runs' = [runs EXCEPT ![r] = place]

\* Who can call run(): the one who created the task, since get() finds no task
\* without metadata, and then everybody.
HasHandle(r) == status = "none" => \A q \in Runs : runs[q] = "new"

\* With one caller, the call before has returned or is gone.
MayCall(r) == OneCaller => \A q \in Runs : runs[q] \in {"new", "over", "cut"}

\* Mutant: a pending task is sent again.
EnqueuesPending == status # "running"

\* The statuses in which run() enqueues.
Enqueues == status \in {"none", "done"}

RunRead(r) == /\ runs[r] = "new"
              /\ HasHandle(r)
              /\ MayCall(r)
              /\ RunTo(r, IF Enqueues THEN "clear" ELSE "over")
              /\ UNCHANGED <<status, flag, jobs, cancels>>

\* Mutant: run() leaves the flag of an earlier cancel().
RunKeepsFlag(r) == /\ runs[r] = "clear"
                   /\ RunTo(r, "write")
                   /\ UNCHANGED <<status, flag, jobs, cancels>>

RunClear(r) == /\ runs[r] = "clear"
               /\ flag' = None
               /\ RunTo(r, "write")
               /\ UNCHANGED <<status, jobs, cancels>>

\* Mutant: a status that is there is not overwritten.
RunWritesOnce(r) == /\ runs[r] = "write"
                    /\ status' = IF status = "none" THEN "pending" ELSE status
                    /\ RunTo(r, "send")
                    /\ UNCHANGED <<flag, jobs, cancels>>

RunWrite(r) == /\ runs[r] = "write"
               /\ status' = "pending"
               /\ RunTo(r, "send")
               /\ UNCHANGED <<flag, jobs, cancels>>

\* Mutants: the flag is cleared after the status is written; the call does not
\* end after it has sent the job.
RunSendsThenClears(r) == /\ runs[r] = "send"
                         /\ jobs' = [jobs EXCEPT ![r].at = "queued"]
                         /\ flag' = None
                         /\ RunTo(r, "over")
                         /\ UNCHANGED <<status, cancels>>

RunSendsOn(r) == /\ runs[r] = "send"
                 /\ jobs' = [jobs EXCEPT ![r].at = "queued"]
                 /\ UNCHANGED <<status, flag, runs, cancels>>

RunSend(r) == /\ runs[r] = "send"
              /\ jobs' = [jobs EXCEPT ![r].at = "queued"]
              /\ RunTo(r, "over")
              /\ UNCHANGED <<status, flag, cancels>>

\* The stream that calls run() is cancelled, Redis or the broker refuses, or the
\* process dies. Nothing undoes what the call has done.
RunFails(r) == /\ runs[r] \in {"clear", "write", "send"}
               /\ RunTo(r, IF runs[r] = "send" THEN "cut" ELSE "over")
               /\ UNCHANGED <<status, flag, jobs, cancels>>

-------------------------------------------------------------------------------
(* cancel(), in an API process.                                            *)

\* get() and is_done(): a task that is unknown or done is not cancelled.
CancelRead(c) ==
    /\ cancels[c].at = "new"
    /\ cancels' = [cancels EXCEPT ![c].at =
                      IF status \in {"none", "done"} THEN "over" ELSE "set"]
    /\ UNCHANGED <<status, flag, runs, jobs>>

\* request_cancel(). The jobs it is for are those that are live, and those whose
\* run() has already cleared the flag and is about to send them.
CancelSet(c) ==
    /\ cancels[c].at = "set"
    /\ flag' = c
    /\ cancels' = [cancels EXCEPT ![c].at = "over",
                     ![c].aims = {r \in Runs : runs[r] \in {"write", "send"} \/ Live(r)}]
    /\ UNCHANGED <<status, runs, jobs>>

\* The key expires after CANCEL_TTL_SECONDS: a job may wait for longer.
FlagExpires == /\ flag # None
               /\ flag' = None
               /\ cancels' = [cancels EXCEPT ![flag].at = "lapsed"]
               /\ UNCHANGED <<status, runs, jobs>>

-------------------------------------------------------------------------------
(* The job, in a worker process.                                           *)

JobMoves(r, from, to) == /\ jobs[r].at = from
                         /\ jobs' = [jobs EXCEPT ![r].at = to]

\* run_agent_task: _ensure_initialized and create_runner.
Pick(r) == /\ JobMoves(r, "queued", "begun")
           /\ UNCHANGED <<status, flag, runs, cancels>>

\* write_meta(RUNNING); the agent and its watcher start.
WriteRunning(r) == /\ JobMoves(r, "begun", "running")
                   /\ status' = "running"
                   /\ UNCHANGED <<flag, runs, cancels>>

\* The agent coroutine returns or raises.
AgentEnds(r) == /\ JobMoves(r, "running", "ended")
                /\ UNCHANGED <<status, flag, runs, cancels>>

\* _watch_cancel sees the flag and cancels the agent coroutine.
Watch(r) == /\ jobs[r].at = "running"
            /\ flag # None
            /\ jobs' = [jobs EXCEPT ![r] = [at |-> "cancelled", by |-> flag]]
            /\ UNCHANGED <<status, flag, runs, cancels>>

\* The agent's exception handler has run.
CancelledEnds(r) == /\ JobMoves(r, "cancelled", "ended")
                    /\ UNCHANGED <<status, flag, runs, cancels>>

\* The finally block: clear_cancel, then write_meta(DONE).
ClearFlag(r) == /\ JobMoves(r, "ended", "cleared")
                /\ flag' = None
                /\ UNCHANGED <<status, runs, cancels>>

\* Mutant: the status is not written if the agent was cancelled.
WriteDoneUnlessCancelled(r) ==
    /\ JobMoves(r, "cleared", "over")
    /\ status' = IF jobs[r].by = None THEN "done" ELSE status
    /\ UNCHANGED <<flag, runs, cancels>>

WriteDone(r) == /\ JobMoves(r, "cleared", "over")
                /\ status' = "done"
                /\ UNCHANGED <<flag, runs, cancels>>

\* Initialization or create_runner raises, before the try block; or the worker
\* process dies. Celery has acknowledged the job: nobody takes it again.
JobGone(r) == /\ jobs[r].at \in {"begun", "running", "cancelled", "ended", "cleared"}
              /\ jobs' = [jobs EXCEPT ![r].at = "gone"]
              /\ UNCHANGED <<status, flag, runs, cancels>>

-------------------------------------------------------------------------------
Run(r) == RunRead(r) \/ RunClear(r) \/ RunWrite(r) \/ RunSend(r) \/ RunFails(r)

Cancel(c) == CancelRead(c) \/ CancelSet(c)

\* What a worker does next, but for the agent's own work.
Supervise(r) == \/ Pick(r) \/ WriteRunning(r) \/ Watch(r) \/ CancelledEnds(r)
                \/ ClearFlag(r) \/ WriteDone(r)

Job(r) == Supervise(r) \/ AgentEnds(r) \/ JobGone(r)

Next == \/ \E r \in Runs : Run(r) \/ Job(r)
        \/ \E c \in Cancels : Cancel(c)
        \/ FlagExpires

Spec == Init /\ [][Next]_vars

\* Coroutines whose await has returned go on, workers take jobs from the queue,
\* and the watcher polls. The agent itself need never end.
Fairness(r) == /\ WF_vars(RunClear(r) \/ RunWrite(r) \/ RunSend(r))
               /\ WF_vars(Supervise(r))

FairSpec == Spec /\ \A r \in Runs : Fairness(r)

-------------------------------------------------------------------------------
\* The task is executed by one worker at a time: run() enqueues it "if it is not
\* already running" (106-119), so that no two agents share its streams.
OneExecution == \A q, r \in Runs : Live(q) /\ Live(r) => q = r

\* A task that says it is done has no job left: a stream that reads is_done()
\* and then drains the output stream has seen all of it (99-104, 131-133).
DoneMeansDone == status = "done" => \A r \in Runs : ~ Live(r)

\* What leaves a task active for ever: a call of run() cut short after it has
\* written the status, or a job that is gone without writing DONE.
Orphaned == \E r \in Runs : runs[r] = "cut" \/ jobs[r].at = "gone"

\* A task that says it is pending or running has a job, or is about to get one,
\* unless one of the two losses that nothing repairs has happened: otherwise
\* run() would never enqueue it again, and every stream on it would poll until
\* the metadata expires (106-119). A call that fails before it has written the
\* status, or that comes while a job ends, loses nothing.
ActiveHasJob == status \in {"pending", "running"} =>
                   Orphaned \/ \E r \in Runs : runs[r] = "send" \/ Live(r)

\* A job is cancelled only by a cancel() that set the flag after the job's run()
\* had cleared it: no flag left from an earlier execution ends a new one, for
\* all the orders in which cancel(), run() and the end of a job may interleave.
NoStaleCancel == \A r \in Runs :
                    jobs[r].by # None => r \in cancels[jobs[r].by].aims

\* The job is over, or will never be sent.
Finished(r) == \/ jobs[r].at \in {"over", "gone"}
               \/ jobs[r].at = "unsent" /\ runs[r] \in {"over", "cut"}

\* A flag that was set for the job expired.
Lapsed(r) == \E c \in Cancels : r \in cancels[c].aims /\ cancels[c].at = "lapsed"

\* Every job that cancel() is for ends, even if its agent never would, unless it
\* waits for so long that the flag expires: nobody clears the flag between
\* cancel() and the watcher's next poll, whatever fails meanwhile (104-111).
CancelTakes == \A c \in Cancels, r \in Runs :
                  (r \in cancels[c].aims) ~> (Finished(r) \/ Lapsed(r))
===============================================================================
