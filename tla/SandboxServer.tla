----------------------------- MODULE SandboxServer -----------------------------
(***************************************************************************)
(* The rest of the sandbox's server: SupervisorService, which shuts the    *)
(* sandbox down after a timeout that requests extend, and FileService.     *)
(*                                                                         *)
(* Both are one object of one event loop. A call to supervisord runs in a  *)
(* thread and goes on when the task that awaits it is cancelled; a read or *)
(* write of a file runs in a thread or a subprocess, one await each.       *)
(***************************************************************************)
EXTENDS Naturals, FiniteSets

CONSTANTS MaxMinutes,      \* the longest timeout asked for
          DefaultMinutes,  \* SERVICE_TIMEOUT_MINUTES, 0 for none
          Edits,           \* calls of write_file, upload_file and str_replace
          Files,
          LongFiles,       \* files of more than max_length characters
          NoFile

ASSUME SandboxConstants == MaxMinutes \in Nat /\ DefaultMinutes \in 0..MaxMinutes

VARIABLES
    timeout,   \* SupervisorService's fields of the timeout
    timers,    \* the minutes left to each task that sleeps before a shutdown
    supervisord, \* its programs run, are stopped, or the server has gone down with it
    rpcs,      \* calls under way in threads
    files,     \* what each file holds
    temp,      \* the temporary file of the writes with sudo, NoFile if there is none
    edits,     \* each call: its place, and what it holds
    \* History.
    refused    \* a shutdown on timeout has failed

supervisorVars == <<timeout, timers, supervisord, rpcs, refused>>
fileVars == <<files, temp, edits>>
sandboxVars == <<supervisorVars, fileVars>>

Minutes == 0..MaxMinutes
Rpc == {"stop", "shutdown", "timeout", "restart stop", "restart start"}
\* `whole`: no text is missing that nobody replaced. `edits`: whose text it has.
Content == [whole: BOOLEAN, edits: SUBSET Edits]
EditPC == {"idle", "read", "write", "temp", "unlink", "closed"}
EditOp == {"write", "append", "replace"}
Unused == [pc |-> "idle", op |-> "write", sudo |-> FALSE, file |-> NoFile,
           content |-> [whole |-> TRUE, edits |-> {}]]

SandboxTypeOK ==
    /\ timeout \in [active: BOOLEAN, left: Minutes, expand: BOOLEAN]
    /\ timers \subseteq Minutes
    /\ supervisord \in {"running", "stopped", "down"}
    /\ rpcs \subseteq Rpc
    /\ refused \in BOOLEAN
    /\ files \in [Files -> Content] /\ temp \in Content \cup {NoFile}
    /\ edits \in [Edits -> [pc: EditPC, op: EditOp, sudo: BOOLEAN,
                            file: Files \cup {NoFile}, content: Content]]

SandboxInit ==
    /\ timeout = [active |-> DefaultMinutes > 0, left |-> DefaultMinutes, expand |-> TRUE]
    /\ timers = {DefaultMinutes} \ {0}
    /\ supervisord = "running" /\ rpcs = {} /\ refused = FALSE
    /\ files = [f \in Files |-> Unused.content] /\ temp = NoFile
    /\ edits = [e \in Edits |-> Unused]

-----------------------------------------------------------------------------
(* The timeout.                                                            *)

\* A fault of SetupTimer: the earlier task sleeps on.
SetupTimerNot(minutes) == timers \cup {minutes}

\* _setup_timer: the task there is, asleep or not, is cancelled.
SetupTimer(minutes) == {minutes}

\* activate_timeout and extend_timeout do the same.
Extend(minutes, expand) ==
    /\ timeout' = [active |-> TRUE, left |-> minutes, expand |-> expand]
    /\ timers' = SetupTimer(minutes)
    /\ refused' = FALSE
    /\ UNCHANGED <<supervisord, rpcs, fileVars>>

\* /timeout/activate and /timeout/extend; without a number the default, and without
\* one an error.
SetTimeout == \E minutes \in Minutes \ {0} : Extend(minutes, FALSE)

\* The middleware: any other request extends the timeout by the default, unless it
\* was set by hand.
AutoExtend ==
    /\ DefaultMinutes > 0 /\ timeout.active /\ timeout.expand
    /\ Extend(DefaultMinutes, TRUE)

CancelTimeout ==
    /\ timeout.active
    /\ timeout' = [active |-> FALSE, left |-> 0, expand |-> TRUE]
    /\ timers' = {} /\ refused' = FALSE
    /\ UNCHANGED <<supervisord, rpcs, fileVars>>

\* One minute, if no task is due. `left` is what get_timeout_status computes.
Tick ==
    /\ 0 \notin timers /\ timeout.left > 0
    /\ timeout' = [timeout EXCEPT !.left = timeout.left - 1]
    /\ timers' = {minutes - 1 : minutes \in timers}
    /\ UNCHANGED <<supervisord, rpcs, refused, fileVars>>

\* shutdown_after_timeout wakes up.
TimeoutShutdown ==
    /\ 0 \in timers
    /\ timers' = timers \ {0} /\ rpcs' = rpcs \cup {"timeout"}
    /\ UNCHANGED <<timeout, supervisord, refused, fileVars>>

-----------------------------------------------------------------------------
(* The calls of supervisord.                                               *)

\* stop_all_services, shutdown, restart_all_services
CallSupervisord(op) ==
    /\ op \in {"stop", "shutdown", "restart stop"} /\ op \notin rpcs
    /\ rpcs' = rpcs \cup {op}
    /\ UNCHANGED <<timeout, timers, supervisord, refused, fileVars>>

\* A call that fails is an error to its caller; a restart does not start then. Nobody
\* looks at the task of a timeout.
RpcFails(op) ==
    /\ op \in rpcs /\ rpcs' = rpcs \ {op}
    /\ refused' = (refused \/ op = "timeout")
    /\ UNCHANGED <<timeout, timers, supervisord, fileVars>>

\* The server is a program of supervisord itself (supervisord.conf): a stop may be the
\* end of it too, and then nothing calls the start of a restart.
RpcReturns(op) ==
    /\ op \in rpcs
    /\ rpcs' = (rpcs \ {op}) \cup (IF op = "restart stop" THEN {"restart start"} ELSE {})
    /\ supervisord' \in CASE op \in {"stop", "restart stop"} -> {"stopped", "down"}
                          [] op = "restart start" -> {"running"}
                          [] op \in {"shutdown", "timeout"} -> {"down"}
    /\ UNCHANGED <<timeout, timers, refused, fileVars>>

-----------------------------------------------------------------------------
(* write_file, upload_file and str_replace.                                *)

\* read_file as str_replace calls it: with the default max_length.
Truncated(f) ==
    IF f \in LongFiles THEN [files[f] EXCEPT !.whole = FALSE] ELSE files[f]

BeginEdit(e, op, sudo, f) ==
    /\ edits[e].pc = "idle"
    /\ edits' = [edits EXCEPT ![e] =
          [pc |-> IF op = "replace" THEN "read" ELSE "write", op |-> op, sudo |-> sudo,
           file |-> f, content |-> [whole |-> TRUE, edits |-> {e}]]]
    /\ UNCHANGED <<supervisorVars, files, temp>>

\* The string to replace may not be there: nothing is written then.
ReadFile(e) ==
    /\ edits[e].pc = "read"
    /\ \/ edits' = [edits EXCEPT ![e] = Unused, ![e].pc = "closed"]
       \/ LET read == Truncated(edits[e].file)
          IN edits' = [edits EXCEPT
                 ![e].pc = "write",
                 ![e].content = [read EXCEPT !.edits = read.edits \cup {e}]]
    /\ UNCHANGED <<supervisorVars, files, temp>>

\* What a file holds after a write of `content`
AfterWrite(e, content) ==
    LET f == edits[e].file
    IN IF edits[e].op # "append" THEN content
       ELSE [whole |-> files[f].whole /\ content.whole,
             edits |-> files[f].edits \cup content.edits]

\* With sudo the text goes to a temporary file that is named by the process alone.
WriteFile(e) ==
    /\ edits[e].pc = "write"
    /\ IF edits[e].sudo
       THEN temp' = edits[e].content /\ edits' = [edits EXCEPT ![e].pc = "temp"]
            /\ UNCHANGED files
       ELSE /\ files' = [files EXCEPT ![edits[e].file] = AfterWrite(e, edits[e].content)]
            /\ edits' = [edits EXCEPT ![e] = Unused, ![e].pc = "closed"]
            /\ UNCHANGED temp
    /\ UNCHANGED supervisorVars

\* The shell empties the file it is to write before it looks for the temporary one,
\* which another call may have removed: then this one raises.
CopyTemp(e) ==
    /\ edits[e].pc = "temp"
    /\ LET f == edits[e].file
           found == IF temp # NoFile THEN AfterWrite(e, temp)
                    ELSE IF edits[e].op = "append" THEN files[f]
                    ELSE [whole |-> FALSE, edits |-> {}]
       IN files' = [files EXCEPT ![f] = found]
    /\ edits' = IF temp = NoFile THEN [edits EXCEPT ![e] = Unused, ![e].pc = "closed"]
                ELSE [edits EXCEPT ![e].pc = "unlink"]
    /\ UNCHANGED <<supervisorVars, temp>>

Unlink(e) ==
    /\ edits[e].pc = "unlink"
    /\ temp' = NoFile /\ edits' = [edits EXCEPT ![e] = Unused, ![e].pc = "closed"]
    /\ UNCHANGED <<supervisorVars, files>>

SupervisorNext ==
    \/ SetTimeout \/ AutoExtend \/ CancelTimeout \/ Tick \/ TimeoutShutdown
    \/ \E op \in Rpc : CallSupervisord(op) \/ RpcFails(op) \/ RpcReturns(op)

FileNext ==
    \E e \in Edits :
        \/ ReadFile(e) \/ WriteFile(e) \/ CopyTemp(e) \/ Unlink(e)
        \/ \E op \in EditOp, sudo \in BOOLEAN, f \in Files : BeginEdit(e, op, sudo, f)

SandboxNext == supervisord # "down" /\ (SupervisorNext \/ FileNext)

SandboxSpec == SandboxInit /\ [][SandboxNext]_sandboxVars

-----------------------------------------------------------------------------
(* Properties.                                                             *)

\* The timeout that is shown is the one that comes: while it is active there is one
\* task asleep, due when the status says, until it calls supervisord; when it is
\* cancelled there is none. Set, extended by hand or by a request, and cancelled in
\* any order (_setup_timer, extend_timeout, cancel_timeout,
\* auto_extend_timeout_middleware). After a shutdown that failed there is no task.
TimerIsTimeout ==
    /\ ~timeout.active => timers = {}
    /\ timeout.active =>
        \/ timers = {timeout.left}
        \/ timers = {} /\ timeout.left = 0
               /\ ("timeout" \in rpcs \/ refused \/ supervisord = "down")

\* What the docs of file_str_replace promise: a string in a file is replaced, and the
\* rest of the file stays (str_replace).
ReplaceKeepsRest == \A f \in Files : files[f].whole
================================================================================
