----------------------------- MODULE ShellSession -----------------------------
(***************************************************************************)
(* One shell session of the sandbox (ShellService): the commands run in it, *)
(* each a process of its own with a reader task for its output, under      *)
(* concurrent calls of exec_command, write_to_process and kill_process.    *)
(* view_shell and wait_for_process change nothing: they are what the       *)
(* results of exec are made of here.                                       *)
(*                                                                         *)
(* An output is the set of those who wrote into it: commands, and Input    *)
(* for what was typed. A process that runs may print at any time, ignore   *)
(* SIGTERM or exit on its own.                                             *)
(***************************************************************************)
EXTENDS Naturals, Sequences, FiniteSets

CONSTANTS Commands,  \* calls of exec_command, each with its process
          Kills,     \* calls of kill_process
          Input, NoCommand

ASSUME ShellConstants == NoCommand \notin Commands

VARIABLES
    shell,     \* the entry of active_shells, NoShell before the first command
    processes, \* each command's process: not started, running, exited
    readers,   \* its pipe and the task that reads it
    execs,     \* each call of exec_command
    kills,     \* each call of kill_process
    \* History.
    doomed,    \* processes that SIGKILL was sent to and that are still there
    overlapped, \* an exec began while another was creating its process
    misplaced  \* commands whose record went to the console of an entry that was replaced

shellVars == <<shell, processes, readers, execs, kills, doomed, overlapped, misplaced>>

Sources == Commands \cup {Input}
MaybeCommand == Commands \cup {NoCommand}
\* `entry`, no field of the code, tells the entries that two calls made apart.
NoShell == [entry |-> NoCommand, process |-> NoCommand, output |-> {}, console |-> <<>>]
\* `open`, no field of the code: the commands whose output was still being read when
\* the record was made
ConsoleRecord == [command: Commands, output: SUBSET Sources, open: SUBSET Commands]
ExecPC == {"idle", "new", "terminate", "create", "wait", "completed", "closed"}
KillPC == {"idle", "terminate", "reap", "closed"}

ShellTypeOK ==
    /\ shell \in [entry: MaybeCommand, process: MaybeCommand, output: SUBSET Sources,
                  console: Seq(ConsoleRecord)]
    /\ processes \in [Commands -> {"none", "runs", "exited"}]
    /\ readers \in [Commands -> [unread: BOOLEAN, reads: BOOLEAN]]
    /\ execs \in [Commands -> [pc: ExecPC, entry: MaybeCommand, old: MaybeCommand,
                               output: SUBSET Sources]]
    /\ kills \in [Kills -> [pc: KillPC, process: MaybeCommand]]
    /\ doomed \subseteq Commands /\ overlapped \in BOOLEAN /\ misplaced \subseteq Commands

ShellInit ==
    /\ shell = NoShell
    /\ processes = [c \in Commands |-> "none"]
    /\ readers = [c \in Commands |-> [unread |-> FALSE, reads |-> FALSE]]
    /\ execs = [c \in Commands |-> [pc |-> "idle", entry |-> NoCommand, old |-> NoCommand,
                                 output |-> {}]]
    /\ kills = [k \in Kills |-> [pc |-> "idle", process |-> NoCommand]]
    /\ doomed = {} /\ overlapped = FALSE /\ misplaced = {}

-----------------------------------------------------------------------------
(* Processes and their readers.                                            *)

PrintOutput(c) ==
    /\ processes[c] = "runs" /\ ~readers[c].unread
    /\ readers' = [readers EXCEPT ![c].unread = TRUE]
    /\ UNCHANGED <<shell, processes, execs, kills, doomed, overlapped, misplaced>>

Exit(c) ==
    /\ processes[c] = "runs"
    /\ processes' = [processes EXCEPT ![c] = "exited"]
    /\ doomed' = doomed \ {c}
    /\ UNCHANGED <<shell, readers, execs, kills, overlapped, misplaced>>

\* A fault of Latest: the output goes to the record of the first command.
LatestFirst(console) == 1
Latest(console) == Len(console)

Written(source) ==
    [shell EXCEPT !.output = shell.output \cup {source},
                  !.console[Latest(shell.console)].output =
                      shell.console[Latest(shell.console)].output \cup {source}]

\* _start_output_reader: what is read belongs to whatever command is the latest.
ReadOutput(c) ==
    /\ readers[c].reads /\ readers[c].unread
    /\ readers' = [readers EXCEPT ![c].unread = FALSE]
    /\ shell' = Written(c)
    /\ UNCHANGED <<processes, execs, kills, doomed, overlapped, misplaced>>

EndOfOutput(c) ==
    /\ readers[c].reads /\ ~readers[c].unread /\ processes[c] = "exited"
    /\ readers' = [readers EXCEPT ![c].reads = FALSE]
    /\ UNCHANGED <<shell, processes, execs, kills, doomed, overlapped, misplaced>>

-----------------------------------------------------------------------------
(* exec_command.                                                           *)

ExecIs(c, pc) == execs' = [execs EXCEPT ![c].pc = pc]
Creating == {d \in Commands : execs[d].pc \in {"new", "terminate", "create"}}

\* Up to the first await. A directory that does not exist is refused.
Exec(c) ==
    /\ execs[c].pc = "idle"
    /\ \/ ExecIs(c, "closed") /\ UNCHANGED overlapped
       \/ /\ execs' = [execs EXCEPT
                ![c].pc = IF shell = NoShell THEN "new"
                          ELSE IF processes[shell.process] = "runs" THEN "terminate"
                          ELSE "create",
                ![c].entry = shell.entry,
                ![c].old = IF shell # NoShell /\ processes[shell.process] = "runs"
                           THEN shell.process ELSE NoCommand]
          /\ overlapped' = (overlapped \/ Creating # {})
    /\ UNCHANGED <<shell, processes, readers, kills, doomed, misplaced>>

\* A fault of Forced: a process that ignores SIGTERM is left alone.
ForcedNot(c) == {}

\* The second of wait_for is over, and the process is still there.
Forced(c) == {execs[c].old}

\* A process whose exit is noticed in between makes kill() raise.
Terminated(c) ==
    /\ execs[c].pc = "terminate"
    /\ \E pc \in {"create", "closed"} :
        /\ pc = "closed" => processes[execs[c].old] = "exited"
        /\ execs' = [execs EXCEPT ![c].pc = pc, ![c].old = NoCommand]
    /\ doomed' = IF processes[execs[c].old] = "exited" THEN doomed ELSE doomed \cup Forced(c)
    /\ UNCHANGED <<shell, processes, readers, kills, overlapped, misplaced>>

\* The console that an exec appends to is that of the entry it found before it awaited
\* anything, which a new session made meanwhile may have replaced.
SameEntry(c) == shell.entry = execs[c].entry

ConsoleRecordOf(c) ==
    [command |-> c, output |-> {}, open |-> {d \in Commands : readers[d].reads}]

\* The process is there; the entry is updated and the reader started in the same step.
Started(c, entry) ==
    /\ shell' = entry
    /\ processes' = [processes EXCEPT ![c] = "runs"]
    /\ readers' = [readers EXCEPT ![c].reads = TRUE]
    /\ ExecIs(c, "wait")

\* The entry a new session gets replaces one made meanwhile. The process and the output
\* of a session there is are those of its entry of now.
NewEntry(c) == [entry |-> c, process |-> c, output |-> {}, console |-> <<ConsoleRecordOf(c)>>]
Reused(c) == [shell EXCEPT !.process = c, !.output = {}]
CreateProcess(c) ==
    /\ \/ execs[c].pc = "new" /\ Started(c, NewEntry(c)) /\ UNCHANGED misplaced
       \/ /\ execs[c].pc = "create" /\ SameEntry(c) /\ UNCHANGED misplaced
          /\ Started(c, [Reused(c) EXCEPT !.console = Append(shell.console, ConsoleRecordOf(c))])
       \/ /\ execs[c].pc = "create" /\ ~SameEntry(c) /\ misplaced' = misplaced \cup {c}
          /\ Started(c, Reused(c))
       \/ /\ execs[c].pc \in {"new", "create"} /\ ExecIs(c, "closed")
          /\ UNCHANGED <<shell, processes, readers, misplaced>>
    /\ UNCHANGED <<kills, doomed, overlapped>>

\* wait_for_process of five seconds, then view_shell: the output of the session, or
\* the answer that the command is still running
Waited(c) ==
    /\ execs[c].pc = "wait"
    /\ \/ processes[c] = "exited"
          /\ execs' = [execs EXCEPT ![c].pc = "completed", ![c].output = shell.output]
       \/ ExecIs(c, "closed")
    /\ UNCHANGED <<shell, processes, readers, kills, doomed, overlapped, misplaced>>

-----------------------------------------------------------------------------
(* write_to_process and kill_process.                                      *)

\* The input is shown before it is written to the process.
Write ==
    /\ shell # NoShell /\ processes[shell.process] = "runs"
    /\ shell' = Written(Input)
    /\ UNCHANGED <<processes, readers, execs, kills, doomed, overlapped, misplaced>>

Kill(k) ==
    /\ kills[k].pc = "idle" /\ shell # NoShell
    /\ kills' = [kills EXCEPT
          ![k] = [pc |-> IF processes[shell.process] = "runs" THEN "terminate" ELSE "closed",
                  process |-> IF processes[shell.process] = "runs" THEN shell.process
                              ELSE NoCommand]]
    /\ UNCHANGED <<shell, processes, readers, execs, doomed, overlapped, misplaced>>

\* Three seconds of grace, then SIGKILL; the call waits for the process to end.
Reap(k) ==
    /\ \/ /\ kills[k].pc = "terminate" /\ processes[kills[k].process] = "runs"
          /\ kills' = [kills EXCEPT ![k].pc = "reap"]
          /\ doomed' = doomed \cup {kills[k].process}
       \/ /\ kills[k].pc \in {"terminate", "reap"} /\ processes[kills[k].process] = "exited"
          /\ kills' = [kills EXCEPT ![k] = [pc |-> "closed", process |-> NoCommand]]
          /\ UNCHANGED doomed
    /\ UNCHANGED <<shell, processes, readers, execs, overlapped, misplaced>>

ShellNext ==
    \/ Write
    \/ \E k \in Kills : Kill(k) \/ Reap(k)
    \/ \E c \in Commands :
        \/ PrintOutput(c) \/ Exit(c) \/ ReadOutput(c) \/ EndOfOutput(c)
        \/ Exec(c) \/ Terminated(c) \/ CreateProcess(c) \/ Waited(c)

ShellSpec == ShellInit /\ [][ShellNext]_shellVars

-----------------------------------------------------------------------------
(* Properties.                                                             *)

\* A session has one process: every earlier one has exited or was sent SIGKILL, also
\* one that ignored SIGTERM, so that no command runs on out of the reach of
\* kill_process. Calls of exec_command that overlap lose sight of a process.
OneProcess ==
    ~overlapped =>
        \A c \in Commands : processes[c] = "runs" => c \in doomed \/ c = shell.process

\* What a record of the console shows under a command is its own output, what was
\* typed, and what was left to read of commands before it (_start_output_reader);
\* a call that reports its command completed shows no more than that, unless
\* another replaced the command meanwhile (exec_command, view_shell). Only the output of
\* a command without a record shows under another's: one that found an entry which a
\* new session replaced before its process was there.
OwnOutput ==
    \A i \in DOMAIN shell.console :
        LET record == shell.console[i]
            own == {record.command, Input} \cup record.open \cup misplaced
        IN /\ record.output \subseteq own
           /\ execs[record.command].pc = "completed" /\ i = Len(shell.console) =>
                  execs[record.command].output \subseteq own
===============================================================================
