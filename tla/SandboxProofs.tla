--------------------------- MODULE SandboxProofs ---------------------------
(***************************************************************************)
(* Theorems about the sandbox's server: its timeout (SandboxServer), for   *)
(* any numbers of minutes, and its shells (ShellSession), for any number   *)
(* of commands and kills.                                                  *)
(***************************************************************************)
EXTENDS SandboxServer, ShellSession, TLAPS

-----------------------------------------------------------------------------
(* The timeout and the files.                                              *)

Timeout == [active: BOOLEAN, left: Minutes, expand: BOOLEAN]
Edit == [pc: EditPC, op: EditOp, sudo: BOOLEAN, file: Files \cup {NoFile}, content: Content]

SupervisorTypeOK ==
    /\ timeout \in Timeout
    /\ timers \subseteq Minutes
    /\ supervisord \in {"running", "stopped", "down"}
    /\ rpcs \subseteq Rpc
    /\ refused \in BOOLEAN

\* A call that has begun is about a file.
FilesTypeOK ==
    /\ files \in [Files -> Content] /\ temp \in Content \cup {NoFile}
    /\ edits \in [Edits -> Edit]
    /\ \A e \in Edits : edits[e].pc \notin {"idle", "closed"} => edits[e].file \in Files

SandboxInv == SupervisorTypeOK /\ TimerIsTimeout /\ FilesTypeOK

LEMMA TimeoutType ==
    ASSUME timeout \in Timeout
    PROVE  timeout.active \in BOOLEAN /\ timeout.left \in Minutes /\ timeout.expand \in BOOLEAN
BY DEF Timeout

LEMMA ExtendTimer ==
    ASSUME SupervisorTypeOK, NEW minutes \in Minutes, NEW expand \in BOOLEAN,
           Extend(minutes, expand)
    PROVE  SupervisorTypeOK' /\ TimerIsTimeout'
<1>1. /\ timeout' \in Timeout /\ timeout'.active /\ timeout'.left = minutes
      /\ timers' = {minutes}
    BY DEF Extend, SetupTimer, Timeout
<1> QED
    BY <1>1 DEF Extend, SupervisorTypeOK, TimerIsTimeout

\* A step of the supervisor service keeps one task for one timeout.
LEMMA SupervisorStep ==
    ASSUME SupervisorTypeOK, TimerIsTimeout, supervisord # "down", SupervisorNext
    PROVE  SupervisorTypeOK' /\ TimerIsTimeout'
<1> USE SandboxConstants
<1>1. /\ timeout \in Timeout /\ timeout.active \in BOOLEAN /\ timeout.left \in Minutes
      /\ timeout.expand \in BOOLEAN
    BY TimeoutType DEF SupervisorTypeOK
<1>2. CASE SetTimeout
    BY <1>2, ExtendTimer DEF SetTimeout
<1>3. CASE AutoExtend
    BY <1>3, ExtendTimer DEF AutoExtend, Minutes
<1>4. CASE CancelTimeout
    <2>1. timeout' \in Timeout /\ ~timeout'.active
        BY <1>4 DEF CancelTimeout, Timeout, Minutes
    <2> QED
        BY <1>4, <2>1 DEF CancelTimeout, SupervisorTypeOK, TimerIsTimeout
<1>5. CASE Tick
    <2>1. timeout.left - 1 \in Minutes
        BY <1>1, <1>5 DEF Tick, Minutes
    <2>2. /\ timeout' \in Timeout /\ timeout'.active = timeout.active
          /\ timeout'.left = timeout.left - 1
        BY <1>1, <1>5, <2>1 DEF Tick, Timeout
    <2>3. timers = IF timeout.active THEN {timeout.left} ELSE {}
        BY <1>1, <1>5 DEF Tick, TimerIsTimeout, Minutes
    <2>4. timers' = IF timeout.active THEN {timeout.left - 1} ELSE {}
        BY <1>5, <2>3 DEF Tick
    <2> QED
        BY <1>1, <1>5, <2>1, <2>2, <2>4 DEF Tick, SupervisorTypeOK, TimerIsTimeout
<1>6. CASE TimeoutShutdown
    <2>1. timeout.active /\ timers = {0} /\ timeout.left = 0
        BY <1>1, <1>6 DEF TimeoutShutdown, TimerIsTimeout
    <2> QED
        BY <1>6, <2>1 DEF TimeoutShutdown, SupervisorTypeOK, TimerIsTimeout, Rpc
<1>7. ASSUME NEW op \in Rpc, CallSupervisord(op) \/ RpcFails(op)
      PROVE  SupervisorTypeOK' /\ TimerIsTimeout'
    BY <1>7 DEF CallSupervisord, RpcFails, SupervisorTypeOK, TimerIsTimeout
<1>8. ASSUME NEW op \in Rpc, RpcReturns(op)
      PROVE  SupervisorTypeOK' /\ TimerIsTimeout'
    <2>1. /\ rpcs' \subseteq Rpc /\ (rpcs \ {op}) \subseteq rpcs'
          /\ supervisord' \in {"running", "stopped", "down"}
          /\ op = "timeout" => supervisord' = "down"
        BY <1>8 DEF RpcReturns, SupervisorTypeOK, Rpc
    <2> QED
        BY <1>8, <2>1 DEF RpcReturns, SupervisorTypeOK, TimerIsTimeout
<1> QED
    BY <1>2, <1>3, <1>4, <1>5, <1>6, <1>7, <1>8 DEF SupervisorNext

LEMMA ContentUnion ==
    ASSUME NEW c \in Content, NEW d \in Content, NEW e \in Edits
    PROVE  /\ [whole |-> c.whole /\ d.whole, edits |-> c.edits \cup d.edits] \in Content
           /\ [c EXCEPT !.whole = FALSE] \in Content
           /\ [c EXCEPT !.edits = c.edits \cup {e}] \in Content
           /\ [whole |-> TRUE, edits |-> {e}] \in Content
           /\ [whole |-> FALSE, edits |-> {}] \in Content
<1>1. (c.whole /\ d.whole) \in BOOLEAN
    OBVIOUS
<1>2. \A b \in BOOLEAN : [whole |-> b, edits |-> c.edits \cup d.edits] \in Content
    BY DEF Content
<1> QED
    BY <1>1, <1>2 DEF Content

LEMMA UnusedType == Unused \in Edit /\ [Unused EXCEPT !.pc = "closed"] \in Edit
                    /\ [Unused EXCEPT !.pc = "closed"].pc = "closed"
BY DEF Unused, Edit, EditPC, EditOp, Content

\* A call that has ended.
EditEnds(e) == edits' = [edits EXCEPT ![e] = Unused, ![e].pc = "closed"]

LEMMA EndedEdit ==
    ASSUME FilesTypeOK, NEW e \in Edits, EditEnds(e)
    PROVE  /\ edits' \in [Edits -> Edit]
           /\ \A d \in Edits : edits'[d].pc \notin {"idle", "closed"} => edits'[d].file \in Files
<1>1. edits \in [Edits -> Edit]
    BY DEF FilesTypeOK
<1>2. edits' = [edits EXCEPT ![e] = [Unused EXCEPT !.pc = "closed"]]
    BY <1>1 DEF EditEnds
<1> QED
    BY <1>1, <1>2, UnusedType DEF FilesTypeOK

LEMMA MovedEdit ==
    ASSUME FilesTypeOK, NEW e \in Edits, NEW n \in Edit, n.file \in Files,
           edits' = [edits EXCEPT ![e] = n]
    PROVE  /\ edits' \in [Edits -> Edit]
           /\ \A d \in Edits : edits'[d].pc \notin {"idle", "closed"} => edits'[d].file \in Files
BY DEF FilesTypeOK

LEMMA EditStep ==
    ASSUME FilesTypeOK, FileNext
    PROVE  FilesTypeOK'
<1>1. PICK e \in Edits :
          \/ ReadFile(e) \/ WriteFile(e) \/ CopyTemp(e) \/ Unlink(e)
          \/ \E op \in EditOp, sudo \in BOOLEAN, f \in Files : BeginEdit(e, op, sudo, f)
    BY DEF FileNext
<1> DEFINE l == edits[e]
<1>2. /\ l \in Edit /\ l.content \in Content /\ files \in [Files -> Content]
      /\ temp \in Content \cup {NoFile} /\ edits \in [Edits -> Edit]
      /\ l.pc \notin {"idle", "closed"} => l.file \in Files
    BY DEF FilesTypeOK, Edit
<1>3. ASSUME NEW c \in Content, NEW pc \in EditPC
      PROVE  [l EXCEPT !.pc = pc, !.content = c] \in Edit /\ [l EXCEPT !.pc = pc] \in Edit
             /\ [l EXCEPT !.pc = pc, !.content = c].file = l.file
             /\ [l EXCEPT !.pc = pc].file = l.file
    BY <1>2 DEF Edit
<1>4. ASSUME NEW op \in EditOp, NEW sudo \in BOOLEAN, NEW f \in Files, BeginEdit(e, op, sudo, f)
      PROVE  FilesTypeOK'
    <2> DEFINE n == [pc |-> IF op = "replace" THEN "read" ELSE "write", op |-> op,
                     sudo |-> sudo, file |-> f, content |-> [whole |-> TRUE, edits |-> {e}]]
    <2>1. n \in Edit /\ n.file \in Files
        BY <1>2, ContentUnion DEF Edit, EditPC
    <2> QED
        BY <1>4, <2>1, MovedEdit DEF BeginEdit, FilesTypeOK
<1>5. CASE ReadFile(e)
    <2> DEFINE read == Truncated(l.file)
               n == [l EXCEPT !.pc = "write", !.content = [read EXCEPT !.edits = read.edits \cup {e}]]
    <2>1. l.file \in Files
        BY <1>2, <1>5 DEF ReadFile
    <2>2. read \in Content
        BY <1>2, <2>1, ContentUnion DEF Truncated
    <2>3. n \in Edit /\ n.file \in Files
        BY <1>3, <2>1, <2>2, ContentUnion DEF EditPC
    <2>4. EditEnds(e) \/ edits' = [edits EXCEPT ![e] = n]
        BY <1>2, <1>5 DEF ReadFile, EditEnds
    <2> QED
        BY <1>2, <1>5, <2>3, <2>4, EndedEdit, MovedEdit DEF ReadFile, FilesTypeOK
<1>6. ASSUME NEW c \in Content, l.file \in Files
      PROVE  AfterWrite(e, c) \in Content
    BY <1>2, <1>6, ContentUnion DEF AfterWrite
<1>7. CASE WriteFile(e)
    <2>1. l.file \in Files
        BY <1>2, <1>7 DEF WriteFile
    <2>2. files' \in [Files -> Content] /\ temp' \in Content \cup {NoFile}
        BY <1>2, <1>6, <1>7, <2>1 DEF WriteFile
    <2>3. EditEnds(e) \/ edits' = [edits EXCEPT ![e] = [l EXCEPT !.pc = "temp"]]
        BY <1>2, <1>7 DEF WriteFile, EditEnds
    <2> QED
        BY <1>2, <1>3, <2>1, <2>2, <2>3, EndedEdit, MovedEdit DEF FilesTypeOK, EditPC
<1>8. CASE CopyTemp(e)
    <2>1. l.file \in Files
        BY <1>2, <1>8 DEF CopyTemp
    <2>2. files' \in [Files -> Content] /\ temp' = temp
        BY <1>2, <1>6, <1>8, <2>1, ContentUnion DEF CopyTemp
    <2>3. EditEnds(e) \/ edits' = [edits EXCEPT ![e] = [l EXCEPT !.pc = "unlink"]]
        BY <1>2, <1>8 DEF CopyTemp, EditEnds
    <2> QED
        BY <1>2, <1>3, <2>1, <2>2, <2>3, EndedEdit, MovedEdit DEF FilesTypeOK, EditPC
<1>9. CASE Unlink(e)
    BY <1>2, <1>9, EndedEdit DEF Unlink, EditEnds, FilesTypeOK
<1> QED
    BY <1>1, <1>4, <1>5, <1>7, <1>8, <1>9

LEMMA SandboxInvInit == SandboxInit => SandboxInv
<1> SUFFICES ASSUME SandboxInit PROVE SandboxInv
    OBVIOUS
<1> USE SandboxConstants
<1>1. (DefaultMinutes > 0) \in BOOLEAN
    OBVIOUS
<1>2. /\ timeout \in Timeout /\ (timeout.active <=> DefaultMinutes > 0)
      /\ timeout.left = DefaultMinutes
    BY <1>1 DEF SandboxInit, Timeout, Minutes
<1>3. SupervisorTypeOK
    BY <1>2 DEF SandboxInit, SupervisorTypeOK, Minutes
<1>4. TimerIsTimeout
    <2>1. CASE DefaultMinutes = 0
        <3>1. ~timeout.active /\ timers = {}
            BY <1>2, <2>1 DEF SandboxInit
        <3> QED
            BY <3>1 DEF TimerIsTimeout
    <2>2. CASE DefaultMinutes > 0
        <3>1. timers = {timeout.left} /\ timeout.active
            BY <1>2, <2>2 DEF SandboxInit
        <3> QED
            BY <3>1 DEF TimerIsTimeout
    <2> QED
        BY <2>1, <2>2
<1>5. FilesTypeOK
    BY UnusedType DEF SandboxInit, FilesTypeOK, Unused, Content
<1> QED
    BY <1>3, <1>4, <1>5 DEF SandboxInv

LEMMA SandboxInvStep == SandboxInv /\ [SandboxNext]_sandboxVars => SandboxInv'
<1> SUFFICES ASSUME SandboxInv, [SandboxNext]_sandboxVars PROVE SandboxInv'
    OBVIOUS
<1>1. SupervisorTypeOK /\ TimerIsTimeout /\ FilesTypeOK
    BY DEF SandboxInv
<1>2. UNCHANGED fileVars => FilesTypeOK'
    BY <1>1 DEF fileVars, FilesTypeOK
<1>3. UNCHANGED supervisorVars => SupervisorTypeOK' /\ TimerIsTimeout'
    BY <1>1 DEF supervisorVars, SupervisorTypeOK, TimerIsTimeout
<1>4. CASE supervisord # "down" /\ SupervisorNext
    <2>1. UNCHANGED fileVars
        BY <1>4
        DEF SupervisorNext, SetTimeout, AutoExtend, Extend, CancelTimeout, Tick, TimeoutShutdown,
            CallSupervisord, RpcFails, RpcReturns
    <2> QED
        BY <1>1, <1>2, <1>4, <2>1, SupervisorStep DEF SandboxInv
<1>5. CASE FileNext
    <2>1. UNCHANGED supervisorVars
        BY <1>5 DEF FileNext, BeginEdit, ReadFile, WriteFile, CopyTemp, Unlink
    <2> QED
        BY <1>1, <1>3, <1>5, <2>1, EditStep DEF SandboxInv
<1> QED
    BY <1>1, <1>2, <1>3, <1>4, <1>5 DEF SandboxNext, sandboxVars, SandboxInv

\* The timeout, its task, the calls of supervisord, the files and the calls that edit
\* them keep their types.
THEOREM SandboxTypes == SandboxSpec => []SandboxTypeOK
<1>1. SandboxInv => SandboxTypeOK
    BY DEF SandboxInv, SupervisorTypeOK, FilesTypeOK, Timeout, Edit, SandboxTypeOK
<1> QED
    BY <1>1, SandboxInvInit, SandboxInvStep, PTL DEF SandboxSpec

\* SupervisorService: whatever sets, extends and cancels the timeout, there is one task
\* that sleeps for as long as the status says, and none once it is cancelled.
THEOREM TimeoutComes == SandboxSpec => []TimerIsTimeout
<1>1. SandboxInv => TimerIsTimeout
    BY DEF SandboxInv
<1> QED
    BY <1>1, SandboxInvInit, SandboxInvStep, PTL DEF SandboxSpec

-----------------------------------------------------------------------------
(* Shells: types.                                                          *)

ShellEntry == [entry: MaybeCommand, process: MaybeCommand, output: SUBSET Sources,
               console: Seq(ConsoleRecord)]
ExecCall == [pc: ExecPC, entry: MaybeCommand, old: MaybeCommand, output: SUBSET Sources]
KillCall == [pc: KillPC, process: MaybeCommand]

Last == shell.console[Len(shell.console)]
OwnOf(record) == {record.command, Input} \cup record.open \cup misplaced

\* The entry of active_shells is there from the first process on, and the latest
\* record of its console is about the process it has, if that has one.
EntryComplete ==
    \/ shell = NoShell
    \/ /\ shell.process \in Commands /\ shell.console # <<>>
       /\ shell.process \in {Last.command} \cup misplaced

\* Who terminates has a process to terminate,
HaveProcess ==
    /\ \A c \in Commands :
          /\ execs[c].pc = "terminate" => execs[c].old \in Commands
          /\ execs[c].pc \in {"terminate", "create"} => shell # NoShell
    /\ \A k \in Kills : kills[k].pc \in {"terminate", "reap"} => kills[k].process \in Commands

\* and who reads is of the latest record, or has none.
ReadersKnown ==
    \A c \in Commands :
        readers[c].reads =>
            shell.console # <<>> /\ c \in {Last.command} \cup Last.open \cup misplaced

ShellInv == ShellTypeOK /\ EntryComplete /\ HaveProcess /\ ReadersKnown

LEMMA ShellTypes ==
    ASSUME ShellTypeOK
    PROVE  /\ shell \in ShellEntry /\ shell.console \in Seq(ConsoleRecord)
           /\ shell.output \subseteq Sources /\ shell.process \in MaybeCommand
           /\ execs \in [Commands -> ExecCall]
           /\ kills \in [Kills -> KillCall]
BY DEF ShellTypeOK, ShellEntry, ExecCall, KillCall

LEMMA WrittenEntry ==
    ASSUME ShellTypeOK, NEW source \in Sources, shell.console # <<>>
    PROVE  /\ Written(source) \in ShellEntry
           /\ Written(source).process = shell.process
           /\ Written(source).output = shell.output \cup {source}
           /\ Len(Written(source).console) = Len(shell.console)
           /\ \A i \in 1..Len(shell.console) :
                 Written(source).console[i] =
                     IF i = Len(shell.console)
                     THEN [shell.console[i] EXCEPT !.output = shell.console[i].output \cup {source}]
                     ELSE shell.console[i]
<1> DEFINE n == Len(shell.console)
           record == [shell.console[n] EXCEPT !.output = shell.console[n].output \cup {source}]
           console == [shell.console EXCEPT ![n] = record]
<1>1. /\ shell \in ShellEntry /\ shell.console \in Seq(ConsoleRecord)
      /\ n \in 1..Len(shell.console) /\ shell.console[n] \in ConsoleRecord
    BY ShellTypes
<1>2. record \in ConsoleRecord
    BY <1>1 DEF ConsoleRecord
<1>3. /\ console \in Seq(ConsoleRecord) /\ Len(console) = n
      /\ \A i \in 1..n : console[i] = IF i = n THEN record ELSE shell.console[i]
    BY <1>1, <1>2
<1>4. Written(source) = [shell EXCEPT !.output = shell.output \cup {source}, !.console = console]
    BY <1>1 DEF Written, Latest, ShellEntry
<1> HIDE DEF console
<1>5. /\ Written(source) \in ShellEntry /\ Written(source).process = shell.process
      /\ Written(source).output = shell.output \cup {source}
      /\ Written(source).console = console
    BY <1>1, <1>3, <1>4, ShellTypes, ZenonT(60) DEF ShellEntry
<1> QED
    BY <1>3, <1>5

\* A new process gets a record of its own, at the end of the console that its call
\* found or in a new entry,
Recorded(c, console) ==
    /\ shell'.console = Append(console, ConsoleRecordOf(c))
    /\ misplaced' = misplaced

\* or none that is in the entry.
Unrecorded(c) ==
    /\ execs[c].pc = "create"
    /\ shell'.console = shell.console
    /\ misplaced' = misplaced \cup {c}

LEMMA StartedEntry ==
    ASSUME ShellTypeOK, NEW c \in Commands, CreateProcess(c)
    PROVE  \/ ExecIs(c, "closed") /\ UNCHANGED <<shell, processes, readers, misplaced>>
           \/ /\ Started(c, shell')
              /\ shell' \in ShellEntry /\ shell'.process = c /\ shell'.output = {}
              /\ \/ Recorded(c, <<>>)
                 \/ Recorded(c, shell.console)
                 \/ Unrecorded(c)
<1>1. /\ shell \in ShellEntry /\ shell.console \in Seq(ConsoleRecord)
      /\ c \in MaybeCommand /\ ConsoleRecordOf(c) \in ConsoleRecord
    BY ShellTypes DEF MaybeCommand, ConsoleRecordOf, ConsoleRecord
<1>2. CASE execs[c].pc = "new" /\ Started(c, NewEntry(c)) /\ UNCHANGED misplaced
    <2>1. shell' = NewEntry(c)
        BY <1>2 DEF Started
    <2>2. /\ NewEntry(c) \in ShellEntry /\ NewEntry(c).process = c /\ NewEntry(c).output = {}
          /\ NewEntry(c).console = Append(<<>>, ConsoleRecordOf(c))
        BY <1>1 DEF NewEntry, ShellEntry
    <2> QED
        BY <1>2, <2>1, <2>2 DEF Recorded
<1>3. /\ Reused(c) \in ShellEntry /\ Reused(c).process = c /\ Reused(c).output = {}
      /\ Reused(c).console = shell.console
    BY <1>1 DEF Reused, ShellEntry
<1>4. ASSUME NEW entry, entry = [Reused(c) EXCEPT !.console = Append(shell.console, ConsoleRecordOf(c))]
      PROVE  /\ entry \in ShellEntry /\ entry.process = c /\ entry.output = {}
             /\ entry.console = Append(shell.console, ConsoleRecordOf(c))
    <2> DEFINE console == Append(shell.console, ConsoleRecordOf(c))
    <2>1. console \in Seq(ConsoleRecord)
        BY <1>1
    <2>2. entry = [Reused(c) EXCEPT !.console = console]
        BY <1>4
    <2> HIDE DEF console
    <2>3. /\ entry \in ShellEntry /\ entry.process = c /\ entry.output = {}
          /\ entry.console = console
        BY <1>3, <2>1, <2>2 DEF ShellEntry
    <2> QED
        BY <2>3 DEF console
<1>5. CASE /\ execs[c].pc = "create" /\ SameEntry(c) /\ UNCHANGED misplaced
           /\ Started(c, [Reused(c) EXCEPT !.console = Append(shell.console, ConsoleRecordOf(c))])
    <2>1. shell' = [Reused(c) EXCEPT !.console = Append(shell.console, ConsoleRecordOf(c))]
        BY <1>5 DEF Started
    <2>2. Started(c, shell')
        BY <1>5, <2>1
    <2> QED
        BY <1>4, <1>5, <2>1, <2>2 DEF Recorded
<1>6. CASE /\ execs[c].pc = "create" /\ ~SameEntry(c) /\ misplaced' = misplaced \cup {c}
           /\ Started(c, Reused(c))
    BY <1>3, <1>6 DEF Started, Unrecorded
<1> QED
    BY <1>2, <1>5, <1>6 DEF CreateProcess

LEMMA RecordedEntry ==
    ASSUME NEW c \in Commands, NEW console \in Seq(ConsoleRecord), Recorded(c, console)
    PROVE  /\ Len(shell'.console) = Len(console) + 1 /\ Len(console) \in Nat
           /\ shell'.console # <<>>
           /\ Last'.command = c /\ Last'.output = {}
           /\ Last'.open = {d \in Commands : readers[d].reads}
           /\ \A i \in 1..Len(console) : shell'.console[i] = console[i]
<1> DEFINE record == ConsoleRecordOf(c)
<1>1. record \in ConsoleRecord
    BY DEF ConsoleRecordOf, ConsoleRecord
<1>2. shell'.console = Append(console, record)
    BY DEF Recorded
<1> HIDE DEF record
<1>3. /\ Append(console, record) \in Seq(ConsoleRecord)
      /\ Len(Append(console, record)) = Len(console) + 1 /\ Len(console) \in Nat
      /\ Append(console, record)[Len(console) + 1] = record
      /\ \A i \in 1..Len(console) : Append(console, record)[i] = console[i]
      /\ Append(console, record) # <<>>
    BY <1>1
<1>4. Last' = record
    BY <1>2, <1>3 DEF Last
<1> QED
    BY <1>2, <1>3, <1>4 DEF record, ConsoleRecordOf

-----------------------------------------------------------------------------
(* Shells: the processes and the output.                                   *)

\* If no two calls of exec_command create a process at a time, the one that does knows
\* what has become of the process before.
CreatorAlone ==
    ~overlapped =>
        /\ \A c, d \in Creating : c = d
        /\ \A c \in Commands :
              /\ execs[c].pc = "new" => shell = NoShell
              /\ execs[c].pc = "terminate" => execs[c].old = shell.process
              /\ execs[c].pc = "create" =>
                    \A d \in Commands : d = shell.process /\ processes[d] = "runs" => d \in doomed

CurrentOutput == shell.console # <<>> => shell.output \subseteq OwnOf(Last)

ProcessInv == ShellInv /\ CreatorAlone /\ OneProcess
OutputInv == ShellInv /\ CurrentOutput /\ OwnOutput

LEMMA SameShell ==
    ASSUME shell' = shell, misplaced' = misplaced,
           \A c \in Commands : readers'[c].reads => readers[c].reads,
           EntryComplete, ReadersKnown
    PROVE  EntryComplete' /\ ReadersKnown'
BY DEF EntryComplete, ReadersKnown, Last, NoShell

\* A step of a process, of a reader or of write_to_process moves no call.
EnvironmentStep(c) == PrintOutput(c) \/ Exit(c) \/ ReadOutput(c) \/ EndOfOutput(c) \/ Write

LEMMA EnvironmentTypes ==
    ASSUME ShellInv, NEW c \in Commands, EnvironmentStep(c)
    PROVE  /\ ShellInv'
           /\ UNCHANGED <<execs, kills, overlapped, misplaced>>
           /\ shell'.process = shell.process
           /\ shell = NoShell => shell' = NoShell
           /\ \/ UNCHANGED <<processes, doomed>>
              \/ Exit(c)
<1>1. /\ ShellTypeOK /\ EntryComplete /\ HaveProcess /\ ReadersKnown
      /\ UNCHANGED <<execs, kills, overlapped, misplaced>>
    BY DEF ShellInv, EnvironmentStep, PrintOutput, Exit, ReadOutput, EndOfOutput, Write
<1>2. (shell # NoShell => shell' # NoShell) => HaveProcess'
    BY <1>1 DEF HaveProcess
<1>3. ASSUME UNCHANGED <<processes, doomed>>, readers' \in [Commands -> [unread: BOOLEAN, reads: BOOLEAN]],
             shell' = shell, \A d \in Commands : readers'[d].reads => readers[d].reads
      PROVE  ShellInv'
    BY <1>1, <1>2, <1>3, SameShell DEF ShellInv, ShellTypeOK
<1>4. CASE PrintOutput(c)
    <2>1. /\ readers' \in [Commands -> [unread: BOOLEAN, reads: BOOLEAN]]
          /\ \A d \in Commands : readers'[d].reads = readers[d].reads
        BY <1>1, <1>4, ZenonT(60) DEF PrintOutput, ShellTypeOK
    <2> QED
        BY <1>3, <1>4, <2>1 DEF PrintOutput
<1>5. CASE EndOfOutput(c)
    BY <1>1, <1>3, <1>5 DEF EndOfOutput, ShellTypeOK
<1>6. CASE Exit(c)
    <2>1. ShellTypeOK'
        BY <1>1, <1>6 DEF Exit, ShellTypeOK
    <2> QED
        BY <1>1, <1>2, <1>6, <2>1, SameShell DEF Exit, ShellInv
<1>7. ASSUME NEW source \in Sources, shell.console # <<>>, shell' = Written(source),
             readers' \in [Commands -> [unread: BOOLEAN, reads: BOOLEAN]],
             \A d \in Commands : readers'[d].reads => readers[d].reads,
             UNCHANGED <<processes, doomed>>
      PROVE  ShellInv' /\ shell'.process = shell.process /\ shell # NoShell
    <2>1. /\ shell # NoShell /\ shell.process \in Commands
          /\ shell.process \in {Last.command} \cup misplaced
        BY <1>1, <1>7 DEF EntryComplete, NoShell
    <2>2. /\ shell' \in ShellEntry /\ shell'.process = shell.process
          /\ Len(shell'.console) = Len(shell.console)
          /\ Len(shell.console) \in 1..Len(shell.console)
          /\ Last \in ConsoleRecord
          /\ Last' = [Last EXCEPT !.output = Last.output \cup {source}]
        <3> DEFINE n == Len(shell.console)
        <3>1. n \in 1..n /\ shell.console[n] \in ConsoleRecord
            BY <1>1, <1>7, ShellTypes
        <3>2. /\ shell' \in ShellEntry /\ shell'.process = shell.process
              /\ Len(shell'.console) = n
              /\ shell'.console[n] =
                    [shell.console[n] EXCEPT !.output = shell.console[n].output \cup {source}]
            BY <1>1, <1>7, <3>1, WrittenEntry
        <3> QED
            BY <3>1, <3>2 DEF Last
    <2>3. /\ shell'.console # <<>> /\ Last'.command = Last.command /\ Last'.open = Last.open
        BY <2>2, ShellTypes, <1>1 DEF ConsoleRecord, ShellEntry
    <2>4. ShellTypeOK'
        BY <1>1, <1>7, <2>2 DEF ShellTypeOK, ShellEntry
    <2>5. shell' # NoShell
        BY <2>3 DEF NoShell
    <2> QED
        BY <1>1, <1>2, <1>7, <2>1, <2>2, <2>3, <2>4, <2>5 DEF ShellInv, EntryComplete, ReadersKnown
<1>8. CASE ReadOutput(c)
    BY <1>1, <1>7, <1>8 DEF ReadOutput, ReadersKnown, ShellTypeOK, Sources
<1>9. CASE Write
    BY <1>1, <1>7, <1>9 DEF Write, EntryComplete, ShellTypeOK, Sources
<1> QED
    BY <1>1, <1>4, <1>5, <1>6, <1>8, <1>9, <1>7
    DEF EnvironmentStep, PrintOutput, EndOfOutput, Exit

\* The calls of kill_process, and those of exec_command that do not create a process.
LEMMA CallTypes ==
    ASSUME ShellInv,
           \/ \E c \in Commands : Exec(c) \/ Terminated(c) \/ Waited(c)
           \/ \E k \in Kills : Kill(k) \/ Reap(k)
    PROVE  ShellInv' /\ UNCHANGED <<shell, processes, readers, misplaced>>
<1>1. /\ ShellTypeOK /\ EntryComplete /\ HaveProcess /\ ReadersKnown
      /\ UNCHANGED <<shell, processes, readers, misplaced>>
      /\ execs \in [Commands -> ExecCall] /\ kills \in [Kills -> KillCall]
      /\ shell # NoShell => shell.process \in Commands
    BY ShellTypes DEF ShellInv, Exec, Terminated, Waited, Kill, Reap, EntryComplete
<1>2. EntryComplete' /\ ReadersKnown'
    BY <1>1, SameShell
<1>3. ASSUME NEW c \in Commands, NEW n \in ExecCall, execs' = [execs EXCEPT ![c] = n],
             n.pc = "terminate" => n.old \in Commands,
             n.pc \in {"terminate", "create"} => shell # NoShell,
             kills' = kills, doomed' \subseteq Commands, overlapped' \in BOOLEAN
      PROVE  ShellInv'
    <2>1. ShellTypeOK'
        BY <1>1, <1>3 DEF ShellTypeOK, ExecCall
    <2>2. HaveProcess'
        BY <1>1, <1>3 DEF HaveProcess
    <2> QED
        BY <1>2, <2>1, <2>2 DEF ShellInv
<1>4. ASSUME NEW k \in Kills, NEW n \in KillCall, kills' = [kills EXCEPT ![k] = n],
             n.pc \in {"terminate", "reap"} => n.process \in Commands,
             execs' = execs, doomed' \subseteq Commands, overlapped' = overlapped
      PROVE  ShellInv'
    <2>1. ShellTypeOK'
        BY <1>1, <1>4 DEF ShellTypeOK, KillCall
    <2>2. HaveProcess'
        BY <1>1, <1>4 DEF HaveProcess
    <2> QED
        BY <1>2, <2>1, <2>2 DEF ShellInv
<1>5. ASSUME NEW c \in Commands, Exec(c)
      PROVE  ShellInv'
    <2>1. CASE ExecIs(c, "closed") /\ UNCHANGED overlapped
        <3>1. [execs[c] EXCEPT !.pc = "closed"] \in ExecCall
            BY <1>1 DEF ExecCall, ExecPC
        <3>2. [execs[c] EXCEPT !.pc = "closed"].pc = "closed"
            BY <1>1 DEF ExecCall
        <3> QED
            BY <1>1, <1>3, <1>5, <2>1, <3>1, <3>2 DEF Exec, ExecIs, ShellTypeOK
    <2>2. CASE ~(ExecIs(c, "closed") /\ UNCHANGED overlapped)
        <3> DEFINE runs == shell # NoShell /\ processes[shell.process] = "runs"
                   n == [execs[c] EXCEPT !.pc = IF shell = NoShell THEN "new"
                                                ELSE IF processes[shell.process] = "runs"
                                                THEN "terminate" ELSE "create",
                                         !.entry = shell.entry,
                                         !.old = IF runs THEN shell.process ELSE NoCommand]
        <3>0. shell.entry \in MaybeCommand /\ NoCommand \in MaybeCommand
              /\ Commands \subseteq MaybeCommand
            BY <1>1, ShellTypes DEF ShellEntry, MaybeCommand
        <3>1. n \in ExecCall
            BY <1>1, <3>0 DEF ExecCall, ExecPC
        <3>2. /\ n.pc = "terminate" => n.old \in Commands
              /\ n.pc \in {"terminate", "create"} => shell # NoShell
            BY <1>1 DEF ExecCall
        <3>3. execs' = [execs EXCEPT ![c] = n]
            BY <1>1, <1>5, <2>2 DEF Exec
        <3>4. overlapped' \in BOOLEAN /\ doomed' \subseteq Commands /\ kills' = kills
            BY <1>1, <1>5, <2>2 DEF Exec, ShellTypeOK
        <3> HIDE DEF n
        <3> QED
            BY <1>3, <3>1, <3>2, <3>3, <3>4
    <2> QED
        BY <2>1, <2>2
<1>6. ASSUME NEW c \in Commands, Terminated(c)
      PROVE  ShellInv'
    <2>1. PICK pc \in {"create", "closed"} :
              execs' = [execs EXCEPT ![c].pc = pc, ![c].old = NoCommand]
        BY <1>6 DEF Terminated
    <2> DEFINE n == [execs[c] EXCEPT !.pc = pc, !.old = NoCommand]
    <2>2. n \in ExecCall /\ n.pc = pc
        BY <1>1 DEF ExecCall, ExecPC, MaybeCommand
    <2>3. execs' = [execs EXCEPT ![c] = n]
        BY <1>1, <2>1
    <2>4. execs[c].old \in Commands /\ shell # NoShell
        BY <1>1, <1>6 DEF Terminated, HaveProcess
    <2>5. doomed' \subseteq Commands /\ kills' = kills /\ overlapped' = overlapped
        BY <1>1, <1>6, <2>4 DEF Terminated, Forced, ShellTypeOK
    <2> HIDE DEF n
    <2> QED
        BY <1>1, <1>3, <2>2, <2>3, <2>4, <2>5 DEF ShellTypeOK
<1>7. ASSUME NEW c \in Commands, Waited(c)
      PROVE  ShellInv'
    <2> DEFINE n(pc, output) == [execs[c] EXCEPT !.pc = pc, !.output = output]
    <2>1. PICK pc \in {"completed", "closed"}, output \in SUBSET Sources :
              execs' = [execs EXCEPT ![c].pc = pc, ![c].output = output]
        <3>1. CASE ExecIs(c, "closed")
            <4>1. execs' = [execs EXCEPT ![c].pc = "closed", ![c].output = execs[c].output]
                BY <1>1, <3>1 DEF ExecIs, ExecCall
            <4> QED
                BY <1>1, <4>1 DEF ExecCall
        <3>2. CASE execs' = [execs EXCEPT ![c].pc = "completed", ![c].output = shell.output]
            BY <1>1, <3>2, ShellTypes
        <3> QED
            BY <1>7, <3>1, <3>2 DEF Waited
    <2>2. n(pc, output) \in ExecCall /\ n(pc, output).pc = pc
        BY <1>1 DEF ExecCall, ExecPC
    <2>3. execs' = [execs EXCEPT ![c] = n(pc, output)]
        BY <1>1, <2>1
    <2> HIDE DEF n
    <2> QED
        BY <1>1, <1>3, <1>7, <2>2, <2>3 DEF Waited, ShellTypeOK
<1>8. ASSUME NEW k \in Kills, Kill(k)
      PROVE  ShellInv'
    <2> DEFINE runs == processes[shell.process] = "runs"
               n == [pc |-> IF runs THEN "terminate" ELSE "closed",
                     process |-> IF runs THEN shell.process ELSE NoCommand]
    <2>1. n \in KillCall /\ (n.pc \in {"terminate", "reap"} => n.process \in Commands)
        BY <1>1, <1>8 DEF Kill, KillCall, KillPC, MaybeCommand
    <2> QED
        BY <1>1, <1>4, <1>8, <2>1 DEF Kill, ShellTypeOK
<1>9. ASSUME NEW k \in Kills, Reap(k)
      PROVE  ShellInv'
    <2>1. kills[k].process \in Commands \/ kills[k].pc \notin {"terminate", "reap"}
        BY <1>1 DEF HaveProcess
    <2>2. CASE kills' = [kills EXCEPT ![k].pc = "reap"]
        <3>1. /\ [kills[k] EXCEPT !.pc = "reap"] \in KillCall
              /\ [kills[k] EXCEPT !.pc = "reap"].process = kills[k].process
            BY <1>1 DEF KillCall, KillPC
        <3>2. kills[k].process \in Commands /\ doomed' \subseteq Commands
            BY <1>1, <1>9, <2>1 DEF Reap, ShellTypeOK
        <3> QED
            BY <1>1, <1>4, <1>9, <2>2, <3>1, <3>2 DEF Reap
    <2>3. CASE kills' = [kills EXCEPT ![k] = [pc |-> "closed", process |-> NoCommand]]
        <3>1. [pc |-> "closed", process |-> NoCommand] \in KillCall
            BY DEF KillCall, KillPC, MaybeCommand
        <3>2. doomed' \subseteq Commands
            BY <1>1, <1>9, <2>1 DEF Reap, ShellTypeOK
        <3> QED
            BY <1>1, <1>4, <1>9, <2>3, <3>1, <3>2 DEF Reap
    <2> QED
        BY <1>9, <2>2, <2>3 DEF Reap
<1> QED
    BY <1>1, <1>5, <1>6, <1>7, <1>8, <1>9

\* The call of exec_command that creates a process.
LEMMA CreateTypes ==
    ASSUME ShellInv, NEW c \in Commands, CreateProcess(c)
    PROVE  ShellInv'
<1>1. /\ ShellTypeOK /\ EntryComplete /\ HaveProcess /\ ReadersKnown
      /\ execs \in [Commands -> ExecCall]
      /\ UNCHANGED <<kills, doomed, overlapped>>
    BY ShellTypes DEF ShellInv, CreateProcess
<1>2. ASSUME NEW pc \in ExecPC \ {"terminate", "create"}, ExecIs(c, pc),
             shell # NoShell => shell' # NoShell
      PROVE  execs' \in [Commands -> ExecCall] /\ HaveProcess'
    <2>1. [execs[c] EXCEPT !.pc = pc] \in ExecCall /\ [execs[c] EXCEPT !.pc = pc].pc = pc
        BY <1>1 DEF ExecCall
    <2>2. execs' = [execs EXCEPT ![c] = [execs[c] EXCEPT !.pc = pc]]
        BY <1>1, <1>2 DEF ExecIs
    <2> QED
        BY <1>1, <1>2, <2>1, <2>2 DEF HaveProcess
<1>3. CASE ExecIs(c, "closed") /\ UNCHANGED <<shell, processes, readers, misplaced>>
    <2>1. ShellTypeOK' /\ HaveProcess'
        BY <1>1, <1>2, <1>3 DEF ExecPC, ShellTypeOK, ExecCall
    <2> QED
        BY <1>1, <1>3, <2>1, SameShell DEF ShellInv
<1>4. ASSUME Started(c, shell'), shell' \in ShellEntry, shell'.process = c,
             \/ Recorded(c, <<>>) \/ Recorded(c, shell.console) \/ Unrecorded(c)
      PROVE  ShellInv'
    <2>0. <<>> \in Seq(ConsoleRecord) /\ shell.console \in Seq(ConsoleRecord)
        BY <1>1, ShellTypes
    <2>1. shell' # NoShell
        BY <1>4, ShellConstants DEF NoShell
    <2>2. execs' \in [Commands -> ExecCall] /\ HaveProcess'
        BY <1>2, <1>4, <2>1 DEF Started, ExecPC
    <2>3. /\ processes' \in [Commands -> {"none", "runs", "exited"}]
          /\ readers' \in [Commands -> [unread: BOOLEAN, reads: BOOLEAN]]
          /\ \A d \in Commands \ {c} : readers'[d] = readers[d]
        BY <1>1, <1>4, ZenonT(60) DEF Started, ShellTypeOK
    <2>4. misplaced \subseteq misplaced' /\ misplaced' \subseteq Commands
        BY <1>1, <1>4 DEF Recorded, Unrecorded, ShellTypeOK
    <2>5. EntryComplete' /\ ReadersKnown'
        <3>1. ASSUME NEW console \in Seq(ConsoleRecord), Recorded(c, console)
              PROVE  EntryComplete' /\ ReadersKnown'
            BY <1>4, <2>3, <3>1, RecordedEntry DEF EntryComplete, ReadersKnown
        <3>2. CASE Unrecorded(c)
            <4>1. shell.console # <<>> /\ shell'.console = shell.console /\ Last' = Last
                  /\ c \in misplaced'
                BY <1>1, <3>2 DEF Unrecorded, HaveProcess, EntryComplete, Last
            <4> QED
                BY <1>1, <1>4, <2>3, <2>4, <4>1 DEF EntryComplete, ReadersKnown
        <3> QED
            BY <1>4, <2>0, <3>1, <3>2
    <2>6. ShellTypeOK'
        BY <1>1, <1>4, <2>2, <2>3, <2>4 DEF ShellTypeOK, ShellEntry, ExecCall
    <2> QED
        BY <2>2, <2>5, <2>6 DEF ShellInv
<1> QED
    BY <1>1, <1>3, <1>4, StartedEntry

LEMMA ShellInvInit == ShellInit => ShellInv
<1> SUFFICES ASSUME ShellInit PROVE ShellInv
    OBVIOUS
<1>1. NoShell \in ShellEntry
    BY DEF NoShell, ShellEntry, MaybeCommand
<1>2. ShellTypeOK
    BY <1>1 DEF ShellInit, ShellTypeOK, ShellEntry, ExecPC, KillPC, MaybeCommand
<1> QED
    BY <1>2 DEF ShellInit, ShellInv, EntryComplete, HaveProcess, ReadersKnown

\* Who takes a step: the environment, a call that creates a process, or another one.
LEMMA ShellSteps ==
    ASSUME ShellNext
    PROVE  \/ \E c \in Commands :
                 \/ EnvironmentStep(c) \/ CreateProcess(c)
                 \/ Exec(c) \/ Terminated(c) \/ Waited(c)
           \/ \E k \in Kills : Kill(k) \/ Reap(k)
           \/ Write
BY DEF ShellNext, EnvironmentStep

LEMMA ShellInvStep == ShellInv /\ [ShellNext]_shellVars => ShellInv'
<1> SUFFICES ASSUME ShellInv, [ShellNext]_shellVars PROVE ShellInv'
    OBVIOUS
<1>1. CASE UNCHANGED shellVars
    BY <1>1 DEF shellVars, ShellInv, ShellTypeOK, EntryComplete, HaveProcess, ReadersKnown, Last
<1>2. CASE Write
    <2>1. PICK c \in Commands : EnvironmentStep(c)
        BY <1>2 DEF Write, ShellInv, EntryComplete, EnvironmentStep
    <2> QED
        BY <2>1, EnvironmentTypes
<1> QED
    BY <1>1, <1>2, ShellSteps, EnvironmentTypes, CallTypes, CreateTypes

\* ShellService: the shells, their processes and their calls keep their types.
THEOREM ShellsTyped == ShellSpec => []ShellTypeOK
<1>1. ShellInv => ShellTypeOK
    BY DEF ShellInv
<1> QED
    BY <1>1, ShellInvInit, ShellInvStep, PTL DEF ShellSpec

LEMMA CreatingPCs ==
    \A c \in Commands : c \in Creating <=> execs[c].pc \in {"new", "terminate", "create"}
BY DEF Creating

LEMMA EnvironmentProcesses ==
    ASSUME ProcessInv, NEW c \in Commands, EnvironmentStep(c)
    PROVE  CreatorAlone' /\ OneProcess'
<1>1. /\ CreatorAlone /\ OneProcess
      /\ UNCHANGED <<execs, kills, overlapped>>
      /\ shell'.process = shell.process
      /\ shell = NoShell => shell' = NoShell
      /\ UNCHANGED <<processes, doomed>> \/ Exit(c)
    BY EnvironmentTypes DEF ProcessInv
<1>2. \A d \in Commands : processes'[d] = "runs" =>
          processes[d] = "runs" /\ (d \in doomed => d \in doomed')
    BY <1>1 DEF Exit, ProcessInv, ShellInv, ShellTypeOK
<1>3. Creating' = Creating
    BY <1>1 DEF Creating
<1> QED
    BY <1>1, <1>2, <1>3 DEF CreatorAlone, OneProcess

LEMMA CallProcesses ==
    ASSUME ProcessInv,
           \/ \E c \in Commands : Exec(c) \/ Terminated(c) \/ Waited(c)
           \/ \E k \in Kills : Kill(k) \/ Reap(k)
    PROVE  CreatorAlone' /\ OneProcess'
<1>1. /\ CreatorAlone /\ OneProcess /\ UNCHANGED <<shell, processes, readers>>
      /\ execs \in [Commands -> ExecCall] /\ kills \in [Kills -> KillCall]
      /\ doomed \subseteq Commands
    BY CallTypes, ShellTypes DEF ProcessInv, ShellInv, ShellTypeOK
<1>2. (overlapped => overlapped') /\ doomed \subseteq doomed'
    <2>1. ASSUME NEW c \in Commands, Exec(c)
          PROVE  (overlapped => overlapped') /\ doomed \subseteq doomed'
        <3>1. doomed' = doomed
            BY <2>1 DEF Exec
        <3>2. (overlapped' <=> overlapped) \/ (overlapped' <=> (overlapped \/ Creating # {}))
            BY <2>1, Zenon DEF Exec
        <3> QED
            BY <3>1, <3>2
    <2>2. ASSUME NEW c \in Commands, Terminated(c) \/ Waited(c)
          PROVE  overlapped' = overlapped /\ doomed \subseteq doomed'
        BY <2>2 DEF Terminated, Waited
    <2>3. ASSUME NEW k \in Kills, Kill(k) \/ Reap(k)
          PROVE  overlapped' = overlapped /\ doomed \subseteq doomed'
        BY <2>3 DEF Kill, Reap
    <2> QED
        BY <2>1, <2>2, <2>3
<1>3. OneProcess'
    BY <1>1, <1>2 DEF OneProcess
<1>4. ASSUME NEW k \in Kills, Kill(k) \/ Reap(k)
      PROVE  CreatorAlone'
    BY <1>1, <1>2, <1>4 DEF Kill, Reap, CreatorAlone, Creating
<1>5. ASSUME NEW c \in Commands, \A d \in Commands \ {c} : execs'[d] = execs[d],
             execs'[c].pc \notin {"new", "terminate", "create"}
      PROVE  CreatorAlone'
    BY <1>1, <1>2, <1>5 DEF CreatorAlone, Creating
<1>6. ASSUME NEW c \in Commands, Exec(c)
      PROVE  CreatorAlone'
    <2>1. CASE ExecIs(c, "closed") /\ UNCHANGED overlapped
        BY <1>1, <1>5, <2>1 DEF ExecIs, ExecCall
    <2>2. CASE ~(ExecIs(c, "closed") /\ UNCHANGED overlapped)
        <3>0. /\ execs' = [execs EXCEPT
                    ![c].pc = IF shell = NoShell THEN "new"
                              ELSE IF processes[shell.process] = "runs" THEN "terminate"
                              ELSE "create",
                    ![c].entry = shell.entry,
                    ![c].old = IF shell # NoShell /\ processes[shell.process] = "runs"
                               THEN shell.process ELSE NoCommand]
              /\ overlapped' = (overlapped \/ Creating # {})
            BY <1>6, <2>2 DEF Exec
        <3>1. /\ execs'[c].pc = IF shell = NoShell THEN "new"
                                ELSE IF processes[shell.process] = "runs" THEN "terminate"
                                ELSE "create"
              /\ execs'[c].pc = "terminate" => execs'[c].old = shell.process
              /\ \A d \in Commands \ {c} : execs'[d] = execs[d]
              /\ ~overlapped' => ~overlapped /\ Creating = {}
            BY <1>1, <3>0 DEF ExecCall
        <3>2. ~overlapped' => \A d \in Commands \ {c} : execs'[d].pc \notin {"new", "terminate", "create"}
            BY <3>1, CreatingPCs
        <3>3. ~overlapped' => Creating' \subseteq {c}
            BY <3>2 DEF Creating
        <3> QED
            BY <1>1, <3>1, <3>2, <3>3 DEF CreatorAlone
    <2> QED
        BY <2>1, <2>2
<1>7. ASSUME NEW c \in Commands, Terminated(c)
      PROVE  CreatorAlone'
    <2>1. /\ execs'[c].pc \in {"create", "closed"}
          /\ \A d \in Commands \ {c} : execs'[d] = execs[d]
          /\ execs[c].pc = "terminate" /\ overlapped' = overlapped
          /\ doomed' = IF processes[execs[c].old] = "exited" THEN doomed
                       ELSE doomed \cup {execs[c].old}
        BY <1>1, <1>7 DEF Terminated, ExecCall, Forced
    <2>2. Creating' \subseteq Creating /\ c \in Creating
        BY <2>1 DEF Creating
    <2>3. ~overlapped => execs[c].old = shell.process
        BY <1>1, <2>1 DEF CreatorAlone
    <2> QED
        BY <1>1, <1>2, <2>1, <2>2, <2>3 DEF CreatorAlone
<1>8. ASSUME NEW c \in Commands, Waited(c)
      PROVE  CreatorAlone'
    BY <1>1, <1>5, <1>8 DEF Waited, ExecIs, ExecCall
<1> QED
    BY <1>3, <1>4, <1>6, <1>7, <1>8

\* The process before has exited or is doomed when the next one replaces it.
LEMMA CreateProcesses ==
    ASSUME ProcessInv, NEW c \in Commands, CreateProcess(c)
    PROVE  CreatorAlone' /\ OneProcess'
<1>1. /\ CreatorAlone /\ OneProcess /\ EntryComplete /\ ShellTypeOK
      /\ execs \in [Commands -> ExecCall]
      /\ UNCHANGED <<kills, doomed, overlapped>>
      /\ execs[c].pc \in {"new", "create"}
    BY ShellTypes DEF ProcessInv, ShellInv, CreateProcess
<1>2. /\ \A d \in Commands \ {c} : execs'[d] = execs[d]
      /\ execs'[c].pc \in {"wait", "closed"}
    BY <1>1, StartedEntry DEF Started, ExecIs, ExecCall
<1>3. ~overlapped => Creating' = {}
    BY <1>1, <1>2 DEF CreatorAlone, Creating
<1>4. CreatorAlone'
    BY <1>1, <1>3, CreatingPCs DEF CreatorAlone, Creating
<1>5. CASE UNCHANGED <<shell, processes, readers>>
    BY <1>1, <1>4, <1>5 DEF OneProcess
<1>6. ASSUME Started(c, shell'), shell'.process = c
      PROVE  OneProcess'
    <2>1. /\ shell'.process = c
          /\ \A d \in Commands \ {c} : processes'[d] = processes[d]
        BY <1>1, <1>6 DEF Started, ShellTypeOK
    <2>2. ASSUME NEW d \in Commands \ {c}, processes[d] = "runs", ~overlapped
          PROVE  d \in doomed
        <3>1. CASE execs[c].pc = "create"
            BY <1>1, <2>2, <3>1 DEF CreatorAlone, OneProcess
        <3>2. CASE execs[c].pc = "new"
            <4>1. shell.process = NoCommand
                BY <1>1, <2>2, <3>2 DEF CreatorAlone, NoShell
            <4> QED
                BY <1>1, <2>2, <4>1, ShellConstants DEF OneProcess
        <3> QED
            BY <1>1, <3>1, <3>2
    <2> QED
        BY <1>1, <2>1, <2>2 DEF OneProcess
<1> QED
    BY <1>1, <1>4, <1>5, <1>6, StartedEntry

LEMMA ProcessInvStep == ProcessInv /\ [ShellNext]_shellVars => ProcessInv'
<1> SUFFICES ASSUME ProcessInv, [ShellNext]_shellVars PROVE ProcessInv'
    OBVIOUS
<1>1. ShellInv'
    BY ShellInvStep DEF ProcessInv
<1>2. CASE UNCHANGED shellVars
    BY <1>1, <1>2 DEF shellVars, ProcessInv, CreatorAlone, OneProcess, Creating
<1>3. CASE Write
    <2>1. PICK c \in Commands : EnvironmentStep(c)
        BY <1>3 DEF Write, ProcessInv, ShellInv, EntryComplete, EnvironmentStep
    <2> QED
        BY <1>1, <2>1, EnvironmentProcesses DEF ProcessInv
<1> QED
    BY <1>1, <1>2, <1>3, ShellSteps, EnvironmentProcesses, CallProcesses, CreateProcesses
    DEF ProcessInv

\* ShellService.exec_command: unless calls overlap, no process of an earlier command is
\* left running without having been sent SIGKILL.
THEOREM OneProcessLeft == ShellSpec => []OneProcess
<1>1. ShellInit => ProcessInv
    <2> SUFFICES ASSUME ShellInit PROVE ProcessInv
        OBVIOUS
    <2> QED
        BY ShellInvInit DEF ShellInit, ProcessInv, CreatorAlone, OneProcess, Creating
<1>2. ProcessInv => OneProcess
    BY DEF ProcessInv
<1> QED
    BY <1>1, <1>2, ProcessInvStep, PTL DEF ShellSpec

-----------------------------------------------------------------------------
(* Shells: the output.                                                     *)

\* The parts of OwnOutput: what a record shows, and what a call reports.
RecordShowsOwn(i) == shell.console[i].output \subseteq OwnOf(shell.console[i])
ReportsOwn(c, record) == execs[c].pc = "completed" => execs[c].output \subseteq OwnOf(record)

OwnOutputParts ==
    /\ \A i \in 1..Len(shell.console) : RecordShowsOwn(i)
    /\ shell.console # <<>> => ReportsOwn(Last.command, Last)

LEMMA OwnOutputSplit == ShellTypeOK => (OwnOutput <=> OwnOutputParts)
<1> SUFFICES ASSUME ShellTypeOK PROVE OwnOutput <=> OwnOutputParts
    OBVIOUS
<1>1. shell.console \in Seq(ConsoleRecord)
    BY ShellTypes
<1>2. /\ DOMAIN shell.console = 1..Len(shell.console) /\ Len(shell.console) \in Nat
      /\ shell.console # <<>> => Len(shell.console) \in 1..Len(shell.console)
      /\ shell.console = <<>> => Len(shell.console) = 0
    BY <1>1
<1> QED
    BY <1>2 DEF OwnOutput, OwnOutputParts, RecordShowsOwn, ReportsOwn, OwnOf, Last

LEMMA OwnOutputNext == ShellTypeOK' => (OwnOutput' <=> OwnOutputParts')
BY OwnOutputSplit, PTL

\* What is written into the latest record is its own.
LEMMA WrittenOwn ==
    ASSUME OutputInv, shell.console # <<>>, NEW source \in Sources,
           source \in OwnOf(Last), shell' = Written(source), ShellTypeOK',
           UNCHANGED <<execs, misplaced>>
    PROVE  CurrentOutput' /\ OwnOutput'
<1> DEFINE n == Len(shell.console)
<1>1. /\ ShellTypeOK /\ CurrentOutput /\ n \in 1..n
      /\ \A i \in 1..n : shell.console[i] \in ConsoleRecord
      /\ \A i \in 1..n : RecordShowsOwn(i)
      /\ ReportsOwn(Last.command, Last)
    BY ShellTypes, OwnOutputSplit DEF OutputInv, ShellInv, OwnOutputParts
<1>2. /\ shell'.output = shell.output \cup {source} /\ Len(shell'.console) = n
      /\ \A i \in 1..n :
            shell'.console[i] =
                IF i = n
                THEN [shell.console[i] EXCEPT !.output = shell.console[i].output \cup {source}]
                ELSE shell.console[i]
    BY <1>1, WrittenEntry
<1>3. \A i \in 1..n :
          /\ shell'.console[i].command = shell.console[i].command
          /\ shell'.console[i].open = shell.console[i].open
          /\ shell'.console[i].output \subseteq
                IF i = n THEN shell.console[i].output \cup {source} ELSE shell.console[i].output
    BY <1>1, <1>2 DEF ConsoleRecord
<1>4. /\ Last'.command = Last.command /\ OwnOf(Last)' = OwnOf(Last)
      /\ \A i \in 1..n : OwnOf(shell.console[i])' = OwnOf(shell.console[i])
    BY <1>1, <1>2, <1>3 DEF Last, OwnOf
<1>5. \A i \in 1..n : RecordShowsOwn(i)'
    BY <1>1, <1>3, <1>4 DEF RecordShowsOwn, Last
<1>6. ReportsOwn(Last.command, Last)'
    BY <1>1, <1>4 DEF ReportsOwn
<1>7. CurrentOutput'
    BY <1>1, <1>2, <1>4 DEF CurrentOutput
<1> QED
    BY <1>2, <1>5, <1>6, <1>7, OwnOutputNext DEF OwnOutputParts

\* A call that leaves the shell alone reports what the shell shows, if anything.
LEMMA ReportedOwn ==
    ASSUME OutputInv, shell' = shell, misplaced' = misplaced, ShellTypeOK',
           \A c \in Commands : execs'[c].pc = "completed" =>
               \/ execs[c].pc = "completed" /\ execs'[c].output = execs[c].output
               \/ execs'[c].output = shell.output
    PROVE  CurrentOutput' /\ OwnOutput'
<1>1. /\ ShellTypeOK /\ CurrentOutput
      /\ \A i \in 1..Len(shell.console) : RecordShowsOwn(i)
      /\ shell.console # <<>> => ReportsOwn(Last.command, Last)
    BY OwnOutputSplit DEF OutputInv, ShellInv, OwnOutputParts
<1>2. shell.console # <<>> => Last.command \in Commands
    <2>1. shell.console # <<>> => Last \in ConsoleRecord
        BY <1>1, ShellTypes DEF Last
    <2> QED
        BY <2>1 DEF ConsoleRecord
<1>3. CurrentOutput' /\ Last' = Last /\ OwnOf(Last)' = OwnOf(Last)
    BY <1>1 DEF CurrentOutput, Last, OwnOf
<1>4. shell'.console # <<>> => ReportsOwn(Last.command, Last)'
    BY <1>1, <1>2, <1>3 DEF ReportsOwn, CurrentOutput
<1>5. \A i \in 1..Len(shell'.console) : RecordShowsOwn(i)'
    BY <1>1 DEF RecordShowsOwn, OwnOf
<1> QED
    BY <1>3, <1>4, <1>5, OwnOutputNext DEF OwnOutputParts

\* A new command begins a record of its own, if any, and has nothing to report yet.
LEMMA StartedOwn ==
    ASSUME OutputInv, NEW c \in Commands, NEW console \in Seq(ConsoleRecord),
           console \in {<<>>, shell.console}, Started(c, shell'), shell'.output = {},
           Recorded(c, console), ShellTypeOK'
    PROVE  CurrentOutput' /\ OwnOutput'
<1>1. /\ Len(shell'.console) = Len(console) + 1 /\ Len(console) \in Nat
      /\ Last'.command = c /\ Last'.output = {}
      /\ \A i \in 1..Len(console) : shell'.console[i] = console[i]
    BY RecordedEntry
<1>2. execs'[c].pc = "wait"
    BY DEF Started, ExecIs, OutputInv, ShellInv, ShellTypeOK
<1>3. \A i \in 1..Len(console) : RecordShowsOwn(i)'
    <2>1. CASE console = shell.console
        BY <1>1, <2>1, OwnOutputSplit
        DEF OutputInv, ShellInv, OwnOutputParts, RecordShowsOwn, OwnOf, Recorded
    <2> QED
        BY <2>1
<1>4. RecordShowsOwn(Len(console) + 1)'
    BY <1>1 DEF RecordShowsOwn, Last
<1>5. \A i \in 1..Len(shell'.console) : RecordShowsOwn(i)'
    <2> SUFFICES ASSUME NEW i \in 1..Len(shell'.console) PROVE RecordShowsOwn(i)'
        OBVIOUS
    <2>1. i \in 1..Len(console) \/ i = Len(console) + 1
        BY <1>1
    <2> QED
        BY <1>3, <1>4, <2>1
<1>6. ReportsOwn(Last.command, Last)'
    BY <1>1, <1>2 DEF ReportsOwn
<1>7. CurrentOutput'
    BY DEF CurrentOutput
<1> QED
    BY <1>5, <1>6, <1>7, OwnOutputNext DEF OwnOutputParts

\* Without a record it may show under another's.
LEMMA UnrecordedOwn ==
    ASSUME OutputInv, NEW c \in Commands, Started(c, shell'), shell'.output = {},
           Unrecorded(c), ShellTypeOK'
    PROVE  CurrentOutput' /\ OwnOutput'
<1>1. /\ \A i \in 1..Len(shell.console) : RecordShowsOwn(i)
      /\ shell.console # <<>> => ReportsOwn(Last.command, Last)
      /\ execs \in [Commands -> ExecCall]
    BY OwnOutputSplit, ShellTypes DEF OutputInv, ShellInv, OwnOutputParts
<1>2. shell'.console = shell.console /\ Last' = Last /\ misplaced \subseteq misplaced'
    BY DEF Unrecorded, Last
<1>3. \A d \in Commands : execs'[d].pc = "completed" => execs'[d] = execs[d]
    BY <1>1 DEF Started, ExecIs, ExecCall
<1>4. \A i \in 1..Len(shell'.console) : RecordShowsOwn(i)'
    BY <1>1, <1>2 DEF RecordShowsOwn, OwnOf
<1>5. shell'.console # <<>> => ReportsOwn(Last.command, Last)'
    <2>1. shell.console # <<>> => Last.command \in Commands
        <3>1. shell.console # <<>> => Last \in ConsoleRecord
            BY ShellTypes DEF Last, OutputInv, ShellInv
        <3> QED
            BY <3>1 DEF ConsoleRecord
    <2> QED
        BY <1>1, <1>2, <1>3, <2>1 DEF ReportsOwn, OwnOf
<1>6. CurrentOutput'
    BY DEF CurrentOutput
<1> QED
    BY <1>4, <1>5, <1>6, OwnOutputNext DEF OwnOutputParts

LEMMA OutputInvStep == OutputInv /\ [ShellNext]_shellVars => OutputInv'
<1> SUFFICES ASSUME OutputInv, [ShellNext]_shellVars PROVE OutputInv'
    OBVIOUS
<1>1. /\ ShellInv /\ ShellInv' /\ ShellTypeOK' /\ ShellTypeOK
      /\ execs \in [Commands -> ExecCall]
    BY ShellInvStep, ShellTypes DEF OutputInv, ShellInv
<1> SUFFICES CurrentOutput' /\ OwnOutput'
    BY <1>1 DEF OutputInv
<1>2. ASSUME UNCHANGED <<shell, execs, misplaced>>
      PROVE  CurrentOutput' /\ OwnOutput'
    BY <1>1, <1>2, ReportedOwn
<1>3. ASSUME NEW c \in Commands, EnvironmentStep(c) \/ Write
      PROVE  CurrentOutput' /\ OwnOutput'
    <2>1. ASSUME ReadOutput(c)
          PROVE  CurrentOutput' /\ OwnOutput'
        BY <1>1, <2>1, WrittenOwn DEF ReadOutput, ShellInv, ReadersKnown, OwnOf, Sources
    <2>2. ASSUME Write
          PROVE  CurrentOutput' /\ OwnOutput'
        BY <1>1, <2>2, WrittenOwn DEF Write, ShellInv, EntryComplete, OwnOf, Sources
    <2> QED
        BY <1>2, <1>3, <2>1, <2>2 DEF EnvironmentStep, PrintOutput, Exit, EndOfOutput
<1>4. ASSUME NEW k \in Kills, Kill(k) \/ Reap(k)
      PROVE  CurrentOutput' /\ OwnOutput'
    BY <1>2, <1>4 DEF Kill, Reap
<1>5. ASSUME NEW c \in Commands, Exec(c) \/ Terminated(c)
      PROVE  CurrentOutput' /\ OwnOutput'
    <2>1. /\ UNCHANGED <<shell, misplaced>>
          /\ \A d \in Commands \ {c} : execs'[d] = execs[d]
          /\ execs'[c].pc # "completed"
        <3>1. CASE Exec(c)
            <4>1. CASE ExecIs(c, "closed")
                BY <1>1, <3>1, <4>1 DEF Exec, ExecIs, ExecCall
            <4>2. CASE ~ExecIs(c, "closed")
                BY <1>1, <3>1, <4>2 DEF Exec, ExecCall
            <4> QED
                BY <4>1, <4>2
        <3>2. CASE Terminated(c)
            BY <1>1, <3>2 DEF Terminated, ExecCall
        <3> QED
            BY <1>5, <3>1, <3>2
    <2> QED
        BY <1>1, <2>1, ReportedOwn
<1>6. ASSUME NEW c \in Commands, Waited(c)
      PROVE  CurrentOutput' /\ OwnOutput'
    <2>1. /\ UNCHANGED <<shell, misplaced>>
          /\ \A d \in Commands \ {c} : execs'[d] = execs[d]
          /\ execs'[c].pc = "completed" => execs'[c].output = shell.output
        <3>1. CASE ExecIs(c, "closed")
            BY <1>1, <1>6, <3>1 DEF Waited, ExecIs, ExecCall
        <3>2. CASE execs' = [execs EXCEPT ![c].pc = "completed", ![c].output = shell.output]
            BY <1>1, <1>6, <3>2 DEF Waited, ExecCall
        <3> QED
            BY <1>6, <3>1, <3>2 DEF Waited
    <2> QED
        BY <1>1, <2>1, ReportedOwn
<1>7. ASSUME NEW c \in Commands, CreateProcess(c)
      PROVE  CurrentOutput' /\ OwnOutput'
    <2>1. ASSUME ExecIs(c, "closed"), UNCHANGED <<shell, misplaced>>
          PROVE  CurrentOutput' /\ OwnOutput'
        <3>1. execs'[c].pc = "closed" /\ \A d \in Commands \ {c} : execs'[d] = execs[d]
            BY <1>1, <2>1 DEF ExecIs, ExecCall
        <3> QED
            BY <1>1, <2>1, <3>1, ReportedOwn
    <2>2. <<>> \in Seq(ConsoleRecord) /\ shell.console \in Seq(ConsoleRecord)
        BY <1>1, ShellTypes
    <2> QED
        BY <1>1, <1>7, <2>1, <2>2, StartedEntry, StartedOwn, UnrecordedOwn
<1>8. CASE UNCHANGED shellVars
    BY <1>2, <1>8 DEF shellVars
<1>9. CASE Write
    <2>1. shell.process \in Commands
        BY <1>1, <1>9 DEF Write, ShellInv, EntryComplete
    <2> QED
        BY <1>3, <1>9, <2>1
<1> QED
    BY <1>3, <1>4, <1>5, <1>6, <1>7, <1>8, <1>9, ShellSteps

\* exec_command, _start_output_reader, view_shell: whatever calls overlap, a command is
\* shown and reported with its own output, with what was typed, with what was left to
\* read when it began, and with that of commands whose record went to an entry that was
\* replaced.
THEOREM OutputIsOwn == ShellSpec => []OwnOutput
<1>1. ShellInit => OutputInv
    <2> SUFFICES ASSUME ShellInit PROVE OutputInv
        OBVIOUS
    <2>1. shell.console = <<>>
        BY DEF ShellInit, NoShell
    <2> QED
        BY <2>1, ShellInvInit DEF OutputInv, CurrentOutput, OwnOutput
<1>2. OutputInv => OwnOutput
    BY DEF OutputInv
<1> QED
    BY <1>1, <1>2, OutputInvStep, PTL DEF ShellSpec
=============================================================================
