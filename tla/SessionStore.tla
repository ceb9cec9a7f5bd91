----------------------------- MODULE SessionStore -----------------------------
(***************************************************************************)
(* The sessions and projects of one user in MongoDB, the REST calls and    *)
(* chats that change them (AgentService, ProjectService), the session-list *)
(* channel that tells a browser of each change, and the file records that  *)
(* agents' runners keep in a session's document.                           *)
(*                                                                         *)
(* Each action is one command to MongoDB or Redis and the code up to the   *)
(* next. A session shows as what the list shows of it: its project, and    *)
(* Items for title, pin, share, mode and the like. Beanie's update of a    *)
(* document that is not there changes nothing; its save inserts one.       *)
(***************************************************************************)
EXTENDS Naturals, Sequences, FiniteSets

CONSTANTS Sessions, Projects,
          Updates,    \* calls that change them
          Runners,    \* agents' runners, of these or of other sessions
          Paths,      \* paths in the sandbox
          MaxFiles,   \* files uploaded to the storage
          NoProject

ASSUME StoreConstants == Sessions # {} /\ Paths # {} /\ MaxFiles \in Nat

VARIABLES
    sessionDocs, \* each session's document
    projects,    \* which projects there are
    updates,     \* each call
    channel,     \* the Redis channel of the user, as the socket has subscribed to it
    list,        \* the socket and the list of its browser
    fileRecords, \* the `files` of every session's document
    sync,        \* what each runner does about a file
    uploaded,    \* files uploaded so far
    \* History.
    unheard,     \* sessions of whose last change no notification was published
    latest,      \* of each path of a session, the file that was recorded last, or 0
    disturbed    \* the places that more than one runner at a time had its hand in

listVars == <<sessionDocs, projects, updates, channel, list, unheard>>
syncVars == <<fileRecords, sync, uploaded, latest, disturbed>>
storeVars == <<listVars, syncVars>>

Items == {"plain", "changed", "archived"}
Summary == [item: Items, project: Projects \cup {NoProject}]
Unborn == [item |-> "unborn", project |-> NoProject]
Erased == [item |-> "deleted", project |-> NoProject]
SessionDoc == Summary \cup {Unborn, Erased}
UpdateOp == {"create", "update", "move", "save", "delete", "drop", "edit"}
UpdatePC == {"idle", "insert", "project", "check", "set", "find", "save", "delete",
             "notify", "publish", "remove", "affected", "clear", "tell", "drop", "put",
             "closed"}
NoUpdate == [pc |-> "idle", op |-> "update", read |-> Unborn, files |-> {}, affected |-> {},
            new |-> [item |-> "plain", project |-> NoProject],
            session |-> CHOOSE s \in Sessions : TRUE]
FileRecord == [session: Sessions, path: Paths, file: 1..MaxFiles]
NoRecord == [session |-> "none", path |-> "none", file |-> 0]
NoSync == [pc |-> "idle", old |-> NoRecord, file |-> 0,
          session |-> CHOOSE s \in Sessions : TRUE, path |-> CHOOSE p \in Paths : TRUE]

NoList == [subscribed |-> FALSE, loaded |-> FALSE, shown |-> [s \in Sessions |-> Unborn]]

StoreTypeOK ==
    /\ sessionDocs \in [Sessions -> SessionDoc]
    /\ projects \subseteq Projects
    /\ updates \in [Updates -> [pc: UpdatePC, op: UpdateOp, session: Sessions,
                                read: SessionDoc, files: SUBSET FileRecord, new: Summary,
                                affected: SUBSET Sessions]]
    /\ channel \in Seq({"upsert", "remove"} \X Sessions)
    /\ list \in [subscribed: BOOLEAN, loaded: BOOLEAN, shown: [Sessions -> SessionDoc]]
    /\ fileRecords \subseteq FileRecord /\ uploaded \in 0..MaxFiles
    /\ sync \in [Runners -> [pc: {"idle", "lookup", "download", "remove", "upload", "add"},
                             session: Sessions, path: Paths, old: FileRecord \cup {NoRecord},
                             file: 0..MaxFiles]]
    /\ unheard \subseteq Sessions /\ disturbed \subseteq Sessions \X Paths
    /\ latest \in [Sessions \X Paths -> 0..MaxFiles]

StoreInit ==
    /\ sessionDocs = [s \in Sessions |-> Unborn]
    /\ projects = Projects
    /\ updates = [u \in Updates |-> NoUpdate]
    /\ channel = <<>>
    /\ list = NoList
    /\ fileRecords = {} /\ uploaded = 0
    /\ sync = [r \in Runners |-> NoSync]
    /\ unheard = {} /\ disturbed = {} /\ latest \in [Sessions \X Paths -> {0}]

-----------------------------------------------------------------------------
(* The calls.                                                              *)

Stored(s) == sessionDocs[s] \in Summary
FilesOf(s) == {file \in fileRecords : file.session = s}
StepTo(u, pc) == updates' = [updates EXCEPT ![u].pc = pc]
KeepList == UNCHANGED <<channel, list, syncVars>>

\* `new` holds the project of a new session, or the one a move or a call on projects is
\* about. A new session has an id of its own.
BeginUpdate(u, op, s, new) ==
    /\ updates[u].pc = "idle"
    /\ op = "create" =>
           /\ sessionDocs[s] = Unborn
           /\ \A v \in Updates : updates[v].op = "create" => updates[v].session # s
    /\ op \in {"create", "move", "drop", "edit"} => new.item = "plain"
    /\ op \in {"drop", "edit"} => new.project # NoProject
    /\ updates' = [updates EXCEPT ![u] =
          [NoUpdate EXCEPT !.op = op, !.session = s, !.new = new,
              !.pc = CASE op = "create" -> "insert"
                       [] op \in {"drop", "edit"} -> "project"
                       [] op = "move" /\ new.project # NoProject -> "project"
                       [] OTHER -> "check"]]
    /\ UNCHANGED <<sessionDocs, projects, unheard>> /\ KeepList

\* create_session: the save of a session that is new. Nobody looks whether there is the
\* project it is put in.
InsertSession(u) ==
    /\ updates[u].pc = "insert"
    /\ sessionDocs' = [sessionDocs EXCEPT ![updates[u].session] = updates[u].new]
    /\ unheard' = unheard \cup {updates[u].session}
    /\ StepTo(u, "publish")
    /\ UNCHANGED projects /\ KeepList

\* _get_owned_project
OwnProject(u) ==
    /\ updates[u].pc = "project"
    /\ StepTo(u, IF updates[u].new.project \notin projects THEN "closed"
                 ELSE CASE updates[u].op = "move" -> "check"
                        [] updates[u].op = "drop" -> "affected"
                        [] updates[u].op = "edit" -> "put")
    /\ UNCHANGED <<sessionDocs, projects, unheard>> /\ KeepList

\* find_by_id_and_user_id, before every change of a session. A chat goes on with all of
\* the session it has read.
CheckSession(u) ==
    LET s == updates[u].session saves == updates[u].op = "save"
    IN /\ updates[u].pc = "check"
       /\ updates' = [updates EXCEPT
             ![u].read = IF saves THEN sessionDocs[s] ELSE Unborn,
             ![u].files = IF saves THEN FilesOf(s) ELSE {},
             ![u].pc = IF ~Stored(s) THEN "closed"
                       ELSE CASE updates[u].op \in {"update", "move"} -> "set"
                              [] OTHER -> "find"]
       /\ UNCHANGED <<sessionDocs, projects, unheard>> /\ KeepList

\* update_title, update_project_id and the rest: a $set of their fields
SetFields(u) ==
    LET s == updates[u].session new == updates[u].new
    IN /\ updates[u].pc = "set"
       /\ sessionDocs' = [sessionDocs EXCEPT ![s] =
             IF ~Stored(s) THEN sessionDocs[s]
             ELSE IF updates[u].op = "move" THEN [sessionDocs[s] EXCEPT !.project = new.project]
             ELSE [sessionDocs[s] EXCEPT !.item = new.item]]
       /\ unheard' = unheard \cup {s}
       /\ StepTo(u, "notify")
       /\ UNCHANGED projects /\ KeepList

\* The find before a save or a delete
FindSession(u) ==
    /\ updates[u].pc = "find"
    /\ StepTo(u, IF updates[u].op = "save" THEN "save"
                 ELSE IF Stored(updates[u].session) THEN "delete" ELSE "closed")
    /\ UNCHANGED <<sessionDocs, projects, unheard>> /\ KeepList

\* A chat that has built a task saves the session it had read before, its file records
\* too: those of since then are lost, and those removed are back.
SaveSession(u) ==
    LET s == updates[u].session
        changed == (FilesOf(s) \ updates[u].files) \cup (updates[u].files \ FilesOf(s))
    IN /\ updates[u].pc = "save"
       /\ sessionDocs' = [sessionDocs EXCEPT ![s] = updates[u].read]
       /\ fileRecords' = (fileRecords \ FilesOf(s)) \cup updates[u].files
       /\ disturbed' = disturbed \cup {<<s, file.path>> : file \in changed}
       /\ unheard' = unheard \cup {s}
       /\ StepTo(u, "publish")
       /\ UNCHANGED <<projects, channel, list, sync, uploaded, latest>>

DeleteSession(u) ==
    LET s == updates[u].session
    IN /\ updates[u].pc = "delete"
       /\ sessionDocs' = [sessionDocs EXCEPT ![s] = Erased]
       /\ fileRecords' = fileRecords \ FilesOf(s)
       /\ latest' = [at \in Sessions \X Paths |-> IF at[1] = s THEN 0 ELSE latest[at]]
       /\ unheard' = unheard \cup {s}
       /\ StepTo(u, "remove")
       /\ UNCHANGED <<projects, channel, list, sync, uploaded, disturbed>>

\* clear_project_id reads the sessions of a project, then clears them.
Affected(u) ==
    /\ updates[u].pc = "affected"
    /\ updates' = [updates EXCEPT ![u].pc = "clear",
          ![u].affected = {s \in Sessions : /\ Stored(s)
                                            /\ sessionDocs[s].project = updates[u].new.project}]
    /\ UNCHANGED <<sessionDocs, projects, unheard>> /\ KeepList

ClearProject(u) ==
    LET cleared == {s \in Sessions : /\ Stored(s)
                                     /\ sessionDocs[s].project = updates[u].new.project}
    IN /\ updates[u].pc = "clear"
       /\ sessionDocs' = [s \in Sessions |->
             IF s \in cleared THEN [sessionDocs[s] EXCEPT !.project = NoProject]
             ELSE sessionDocs[s]]
       /\ unheard' = unheard \cup cleared
       /\ StepTo(u, "tell")
       /\ UNCHANGED projects /\ KeepList

DropProject(u) ==
    /\ updates[u].pc = "drop"
    /\ projects' = projects \ {updates[u].new.project}
    /\ StepTo(u, "closed")
    /\ UNCHANGED <<sessionDocs, unheard>> /\ KeepList

\* update_project saves the project it had read.
PutProject(u) ==
    /\ updates[u].pc = "put"
    /\ projects' = projects \cup {updates[u].new.project}
    /\ StepTo(u, "closed")
    /\ UNCHANGED <<sessionDocs, unheard>> /\ KeepList

-----------------------------------------------------------------------------
(* The notifications and the browser's list.                               *)

\* _notify_upsert finds the session once more.
Notify(u) ==
    /\ updates[u].pc = "notify"
    /\ StepTo(u, IF Stored(updates[u].session) THEN "publish" ELSE "closed")
    /\ UNCHANGED <<sessionDocs, projects, unheard>> /\ KeepList

\* Nobody gets what is published before the socket has subscribed. An error of
\* Redis is logged.
Published(s, op) ==
    \/ /\ channel' = IF list.subscribed THEN Append(channel, <<op, s>>) ELSE channel
       /\ unheard' = IF (op = "remove") = Stored(s) THEN unheard \cup {s} ELSE unheard \ {s}
    \/ UNCHANGED <<channel, unheard>>

Publish(u) ==
    /\ updates[u].pc \in {"publish", "remove"}
    /\ Published(updates[u].session, IF updates[u].pc = "remove" THEN "remove" ELSE "upsert")
    /\ StepTo(u, "closed")
    /\ UNCHANGED <<sessionDocs, projects, list, syncVars>>

\* One session after the other
TellAffected(u) ==
    /\ updates[u].pc = "tell"
    /\ IF updates[u].affected = {}
       THEN StepTo(u, "drop") /\ UNCHANGED <<channel, unheard>>
       ELSE \E s \in updates[u].affected :
                /\ updates' = [updates EXCEPT ![u].affected = updates[u].affected \ {s}]
                /\ Published(s, "upsert")
    /\ UNCHANGED <<sessionDocs, projects, list, syncVars>>

\* A list has no archived sessions: the snapshot leaves them out, the browser drops
\* them (SessionSidebar.vue).
Shown(s) == IF Stored(s) /\ sessionDocs[s].item # "archived" THEN sessionDocs[s] ELSE Unborn

\* sessions_list_ws subscribes first, then loads the list.
Subscribe ==
    /\ ~list.subscribed /\ list' = [list EXCEPT !.subscribed = TRUE]
    /\ UNCHANGED <<sessionDocs, projects, updates, channel, unheard, syncVars>>

\* A fault of MayLoad: the list may be loaded before.
MayLoadFirst == ~list.loaded
MayLoad == ~list.loaded /\ list.subscribed

Snapshot ==
    /\ MayLoad
    /\ list' = [list EXCEPT !.loaded = TRUE, !.shown = [s \in Sessions |-> Shown(s)]]
    /\ UNCHANGED <<sessionDocs, projects, updates, channel, unheard, syncVars>>

\* An upsert is sent with what is stored when it is handled; nothing is sent of a
\* session that is gone by then.
Handle ==
    /\ list.loaded /\ channel # <<>>
    /\ LET op == Head(channel)[1] s == Head(channel)[2]
       IN list' = [list EXCEPT !.shown[s] =
              IF op = "remove" THEN Unborn ELSE IF Stored(s) THEN Shown(s) ELSE list.shown[s]]
    /\ channel' = Tail(channel)
    /\ UNCHANGED <<sessionDocs, projects, updates, unheard, syncVars>>

Disconnect ==
    /\ list.subscribed /\ list' = NoList
    /\ channel' = <<>>
    /\ UNCHANGED <<sessionDocs, projects, updates, unheard, syncVars>>

-----------------------------------------------------------------------------
(* The runners' files: _sync_file_to_storage and _sync_file_to_sandbox.    *)

Place(r) == <<sync[r].session, sync[r].path>>
SyncIs(r, pc) == sync' = [sync EXCEPT ![r].pc = pc]

\* A tool has written a file, or a message names one. A runner syncs one file at a time;
\* two runners of a session are there when a task has outlived its cancellation.
BeginSync(r, s, p) ==
    /\ sync[r].pc = "idle" /\ sessionDocs[s] # Unborn
    /\ sync' = [sync EXCEPT ![r].pc = "lookup", ![r].session = s, ![r].path = p]
    /\ disturbed' = IF \E q \in Runners : sync[q].pc # "idle" /\ Place(q) = <<s, p>>
                    THEN disturbed \cup {<<s, p>>} ELSE disturbed
    /\ UNCHANGED <<fileRecords, uploaded, latest, listVars>>

\* get_file_by_path, an error when there is no session; then the download from the sandbox
Lookup(r) ==
    /\ sync[r].pc = "lookup" /\ Stored(sync[r].session)
    /\ LET there == {file \in FilesOf(sync[r].session) : file.path = sync[r].path}
       IN \E old \in IF there = {} THEN {NoRecord} ELSE there :
              sync' = [sync EXCEPT ![r].pc = "download", ![r].old = old]
    /\ UNCHANGED <<fileRecords, uploaded, latest, disturbed, listVars>>

Download(r) ==
    /\ sync[r].pc = "download"
    /\ SyncIs(r, IF sync[r].old = NoRecord THEN "upload" ELSE "remove")
    /\ UNCHANGED <<fileRecords, uploaded, latest, disturbed, listVars>>

\* A fault of Without: the file of before stays in the session.
WithoutNone(old) == fileRecords
Without(old) == fileRecords \ {old}

\* remove_file: a $pull
RemoveFile(r) ==
    /\ sync[r].pc = "remove"
    /\ fileRecords' = Without(sync[r].old)
    /\ SyncIs(r, "upload")
    /\ UNCHANGED <<uploaded, latest, disturbed, listVars>>

UploadFile(r) ==
    /\ sync[r].pc = "upload" /\ uploaded < MaxFiles
    /\ uploaded' = uploaded + 1
    /\ sync' = [sync EXCEPT ![r].pc = "add", ![r].file = uploaded + 1, ![r].old = NoRecord]
    /\ UNCHANGED <<fileRecords, latest, disturbed, listVars>>

\* add_file: a $push to the document, if it is there
AddFile(r) ==
    LET s == sync[r].session
        added == IF Stored(s) THEN sync[r].file ELSE 0
        record == [session |-> s, path |-> sync[r].path, file |-> added]
    IN /\ sync[r].pc = "add"
       /\ fileRecords' = IF Stored(s) THEN fileRecords \cup {record} ELSE fileRecords
       /\ latest' = [latest EXCEPT ![Place(r)] = added]
       /\ SyncIs(r, "idle")
       /\ UNCHANGED <<uploaded, disturbed, listVars>>

\* An exception is logged; a stop of the task cancels the runner at an await. The record
\* removed before is gone.
SyncFails(r) ==
    /\ sync[r].pc # "idle"
    /\ sync' = [sync EXCEPT ![r].pc = "idle", ![r].old = NoRecord]
    /\ latest' = IF sync[r].pc \in {"upload", "add"} THEN [latest EXCEPT ![Place(r)] = 0]
                 ELSE latest
    /\ UNCHANGED <<fileRecords, uploaded, disturbed, listVars>>

\* A file a user attached gets its record without a look at those of its path.
Attach(r, s, p) ==
    /\ sync[r].pc = "idle" /\ Stored(s) /\ uploaded < MaxFiles
    /\ uploaded' = uploaded + 1 /\ disturbed' = disturbed \cup {<<s, p>>}
    /\ fileRecords' = fileRecords \cup {[session |-> s, path |-> p, file |-> uploaded + 1]}
    /\ UNCHANGED <<sync, latest, listVars>>

ListNext ==
    \/ Subscribe \/ Snapshot \/ Handle \/ Disconnect
    \/ \E u \in Updates :
        \/ InsertSession(u) \/ OwnProject(u) \/ CheckSession(u) \/ SetFields(u)
        \/ FindSession(u) \/ SaveSession(u) \/ DeleteSession(u)
        \/ Affected(u) \/ ClearProject(u) \/ TellAffected(u) \/ DropProject(u)
        \/ PutProject(u) \/ Notify(u) \/ Publish(u)
        \/ \E op \in UpdateOp, s \in Sessions, new \in Summary : BeginUpdate(u, op, s, new)

SyncNext ==
    \E r \in Runners :
        \/ Lookup(r) \/ Download(r) \/ RemoveFile(r) \/ UploadFile(r) \/ AddFile(r)
        \/ SyncFails(r)
        \/ \E s \in Sessions, p \in Paths : BeginSync(r, s, p) \/ Attach(r, s, p)

StoreSpec == StoreInit /\ [][ListNext \/ SyncNext]_storeVars

-----------------------------------------------------------------------------
(* Properties.                                                             *)

\* When nothing is under way, the list in the browser is the one stored: whatever
\* calls overlapped with each other, with a save of an older read and with the
\* connection of the socket, no change and no deletion is shown late or for good
\* wrongly (sessions_list_ws, _notify_upsert, delete). Excepted are changes nobody
\* told of: Redis failed, a session came into a project while that was dropped, or the
\* last one to tell of a session said the other of what it now is, stored or gone (a
\* save overtook a delete).
ListIsCurrent ==
    /\ list.subscribed /\ list.loaded /\ channel = <<>>
    /\ \A u \in Updates : updates[u].pc \in {"idle", "closed"}
    => \A s \in Sessions \ unheard : list.shown[s] = Shown(s)

\* A path that an agent writes again and again has one record in the session, and that of
\* the file uploaded last: a second sync, one that failed or was cancelled half-way, a
\* deletion and a chat's save leave no older record and no other one, and only a sync
\* that is under way, or that was cut between its remove and its add, leaves none
\* (_sync_file_to_storage, remove_file, add_file). Excepted are the places where a
\* whole-document save put back or took away records, where two runners overlapped, and
\* where a user attached a file.
OnlyLatestRecord ==
    \A s \in Sessions, p \in Paths : <<s, p>> \notin disturbed =>
        LET there == {file \in FilesOf(s) : file.path = p}
        IN /\ \A file \in there : file.file = latest[<<s, p>>]
           /\ there = {} => \/ latest[<<s, p>>] = 0
                            \/ \E r \in Runners : /\ sync[r].pc \in {"upload", "add"}
                                                  /\ Place(r) = <<s, p>>
===============================================================================
